---- MODULE Spec2Model ----
(***************************************************************************)
(* Bias-scoring orchestration of veritas_news.ai.bias_analysis:            *)
(* the response parsers, the per-unit callers with their retry loops and   *)
(* the two fan-out/fan-in orchestrators rate_bias_parallel and             *)
(* rate_secm_parallel.                                                     *)
(*                                                                         *)
(* A Python str is modelled as a sequence of one-character strings, so     *)
(* that searching, stripping, lower-casing and joining are computed.       *)
(* A Python float read from decimal digits is modelled as an exact         *)
(* fraction [num, den] in lowest terms.                                    *)
(***************************************************************************)
EXTENDS Integers, Sequences, FiniteSets, TLC

(* ---------------------------------------------------------------- text *)

UpperCase ==
    <<"A", "B", "C", "D", "E", "F", "G", "H", "I", "J", "K", "L", "M", "N", "O", "P", "Q", "R", "S", "T", "U", "V", "W", "X", "Y", "Z">>
LowerCase ==
    <<"a", "b", "c", "d", "e", "f", "g", "h", "i", "j", "k", "l", "m", "n", "o", "p", "q", "r", "s", "t", "u", "v", "w", "x", "y", "z">>
DigitChars ==
    <<"0", "1", "2", "3", "4", "5", "6", "7", "8", "9">>

Range(s) == {s[i] : i \in 1..Len(s)}

IsDigit(c) == c \in Range(DigitChars)

DigitVal(c) == (CHOOSE i \in 1..10 : DigitChars[i] = c) - 1

\* \w of the re module, restricted to ASCII
IsWordChar(c) == c \in Range(DigitChars) \cup Range(UpperCase) \cup Range(LowerCase) \cup {"_"}

\* the characters str.strip() removes
IsSpace(c) == c \in {" ", "\t", "\n", "\r"}

LowerChar(c) ==
    IF c \in Range(UpperCase)
    THEN LowerCase[CHOOSE i \in 1..26 : UpperCase[i] = c]
    ELSE c

\* str.lower()
Lower(s) == [i \in 1..Len(s) |-> LowerChar(s[i])]

\* str.strip()
Strip(s) ==
    LET keep == {i \in 1..Len(s) : ~IsSpace(s[i])}
    IN  IF keep = {} THEN <<>>
        ELSE SubSeq(s, CHOOSE i \in keep : \A j \in keep : i <= j,
                       CHOOSE i \in keep : \A j \in keep : i >= j)

\* str.find(pat, from) + 1: the first index >= from at which pat occurs, 0 if none
FindFrom(s, pat, from) ==
    LET hits == {i \in from..(Len(s) - Len(pat) + 1) : SubSeq(s, i, i + Len(pat) - 1) = pat}
    IN  IF hits = {} THEN 0 ELSE CHOOSE i \in hits : \A j \in hits : i <= j

\* pat in s
Contains(s, pat) == FindFrom(s, pat, 1) # 0

\* the position i holds a word character (positions run 1..Len(s))
WordAt(s, i) == i >= 1 /\ i <= Len(s) /\ IsWordChar(s[i])

\* the last index of the run of digits that starts at i
DigitRunEnd(s, i) ==
    CHOOSE j \in i..Len(s) :
        /\ \A k \in i..j : IsDigit(s[k])
        /\ (j = Len(s) \/ ~IsDigit(s[j + 1]))

RECURSIVE JoinWith(_, _)
\* sep.join(parts)
JoinWith(parts, sep) ==
    IF parts = <<>> THEN <<>>
    ELSE IF Len(parts) = 1 THEN parts[1]
    ELSE parts[1] \o sep \o JoinWith(Tail(parts), sep)

(* ------------------------------------------------------------- numbers *)

RECURSIVE GCD(_, _)
GCD(a, b) == IF b = 0 THEN a ELSE GCD(b, a % b)

\* the fraction n/d (d > 0) in lowest terms
Rat(n, d) == LET g == GCD(n, d) IN [num |-> n \div g, den |-> d \div g]

RatLess(a, b) == a.num * b.den < b.num * a.den

RECURSIVE DigitsValue(_)
\* int() of a run of digits
DigitsValue(ds) ==
    IF ds = <<>> THEN 0
    ELSE 10 * DigitsValue(SubSeq(ds, 1, Len(ds) - 1)) + DigitVal(ds[Len(ds)])

RECURSIVE Pow10(_)
Pow10(k) == IF k = 0 THEN 1 ELSE 10 * Pow10(k - 1)

\* float() of the text a number pattern matched: digits, or digits "." digits
ToFloat(t) ==
    LET dot == FindFrom(t, <<".">>, 1)
    IN  IF dot = 0 THEN Rat(DigitsValue(t), 1)
        ELSE Rat(DigitsValue(SubSeq(t, 1, dot - 1) \o SubSeq(t, dot + 1, Len(t))),
                 Pow10(Len(t) - dot))

(* ---------------------------------------------------- parse_llm_score *)

MsgEmptyLLM ==
    <<"E", "m", "p", "t", "y", " ", "r", "e", "s", "p", "o", "n", "s", "e", " ", "f", "r", "o", "m", " ", "L", "L", "M">>
MsgNoScore ==
    <<"C", "o", "u", "l", "d", " ", "n", "o", "t", " ", "e", "x", "t", "r", "a", "c", "t", " ", "v", "a", "l", "i", "d", " ", "s", "c", "o", "r", "e", " ", "f", "r", "o", "m", " ", "r", "e", "s", "p", "o", "n", "s", "e", ":", " ">>
WOne ==
    <<"o", "n", "e">>
WTwo ==
    <<"t", "w", "o">>
WThree ==
    <<"t", "h", "r", "e", "e">>
WFour ==
    <<"f", "o", "u", "r">>
WFive ==
    <<"f", "i", "v", "e">>
WSix ==
    <<"s", "i", "x">>
WSeven ==
    <<"s", "e", "v", "e", "n">>

ValueError(msg) == [type |-> "ValueError", msg |-> msg]
RuntimeError(msg) == [type |-> "RuntimeError", msg |-> msg]

\* str(e) of an exception built from one message
StrOf(e) == e.msg

Returned(v) == [ok |-> TRUE, value |-> v]
Raised(e) == [ok |-> FALSE, error |-> e]

\* re.search(r"\b(\d+\.\d+)\b", text): group 1 of the leftmost match, <<>> if none
SearchDecimal(text) ==
    LET ok(i) ==
            /\ IsDigit(text[i])
            /\ ~WordAt(text, i - 1)
            /\ LET j == DigitRunEnd(text, i)
               IN  /\ j + 2 <= Len(text)
                   /\ text[j + 1] = "."
                   /\ IsDigit(text[j + 2])
                   /\ ~WordAt(text, DigitRunEnd(text, j + 2) + 1)
        hits == {i \in 1..Len(text) : ok(i)}
    IN  IF hits = {} THEN <<>>
        ELSE LET i == CHOOSE h \in hits : \A g \in hits : h <= g
             IN  SubSeq(text, i, DigitRunEnd(text, DigitRunEnd(text, i) + 2))

\* re.search(r"\b(\d+)\b", text): group 1 of the leftmost match, <<>> if none
SearchInteger(text) ==
    LET ok(i) ==
            /\ IsDigit(text[i])
            /\ ~WordAt(text, i - 1)
            /\ ~WordAt(text, DigitRunEnd(text, i) + 1)
        hits == {i \in 1..Len(text) : ok(i)}
    IN  IF hits = {} THEN <<>>
        ELSE LET i == CHOOSE h \in hits : \A g \in hits : h <= g
             IN  SubSeq(text, i, DigitRunEnd(text, i))

\* the score as parsed, not clamped
ClampNone(score) == score

\* max(1.0, min(7.0, score))
Clamp(score) ==
    IF RatLess(Rat(7, 1), score) THEN Rat(7, 1)
    ELSE IF RatLess(score, Rat(1, 1)) THEN Rat(1, 1)
    ELSE score

\* the dict written_numbers, in insertion order
written_numbers ==
    << <<WOne, 1>>, <<WTwo, 2>>, <<WThree, 3>>, <<WFour, 4>>,
       <<WFive, 5>>, <<WSix, 6>>, <<WSeven, 7>> >>

\* a parser that takes the number word that stands first in the text
parse_llm_score_first_word(response_text) ==
    IF Strip(response_text) = <<>> THEN Raised(ValueError(MsgEmptyLLM))
    ELSE
    LET text == Strip(response_text)
        dec == SearchDecimal(text)
        int == SearchInteger(text)
        text_lower == Lower(text)
        words == {k \in 1..Len(written_numbers) : Contains(text_lower, written_numbers[k][1])}
    IN  IF dec # <<>> THEN Returned(Clamp(ToFloat(dec)))
        ELSE IF int # <<>> THEN Returned(Clamp(ToFloat(int)))
        ELSE IF words # {}
             THEN Returned(Rat(written_numbers[
                      CHOOSE k \in words : \A m \in words :
                          FindFrom(text_lower, written_numbers[k][1], 1)
                              <= FindFrom(text_lower, written_numbers[m][1], 1)][2], 1))
        ELSE Raised(ValueError(MsgNoScore \o text))

\* a parser that looks for the integer pattern before the decimal pattern
parse_llm_score_integer_first(response_text) ==
    IF Strip(response_text) = <<>> THEN Raised(ValueError(MsgEmptyLLM))
    ELSE
    LET text == Strip(response_text)
        dec == SearchDecimal(text)
        int == SearchInteger(text)
        text_lower == Lower(text)
        words == {k \in 1..Len(written_numbers) : Contains(text_lower, written_numbers[k][1])}
    IN  IF int # <<>> THEN Returned(Clamp(ToFloat(int)))
        ELSE IF dec # <<>> THEN Returned(Clamp(ToFloat(dec)))
        ELSE IF words # {}
             THEN Returned(Rat(written_numbers[CHOOSE k \in words : \A m \in words : k <= m][2], 1))
        ELSE Raised(ValueError(MsgNoScore \o text))

\* a parser that answers the middle of the scale when it finds no score
parse_llm_score_default(response_text) ==
    IF Strip(response_text) = <<>> THEN Raised(ValueError(MsgEmptyLLM))
    ELSE
    LET text == Strip(response_text)
        dec == SearchDecimal(text)
        int == SearchInteger(text)
        text_lower == Lower(text)
        words == {k \in 1..Len(written_numbers) : Contains(text_lower, written_numbers[k][1])}
    IN  IF dec # <<>> THEN Returned(Clamp(ToFloat(dec)))
        ELSE IF int # <<>> THEN Returned(Clamp(ToFloat(int)))
        ELSE IF words # {}
             THEN Returned(Rat(written_numbers[CHOOSE k \in words : \A m \in words : k <= m][2], 1))
        ELSE Returned(Rat(4, 1))

parse_llm_score(response_text) ==
    IF Strip(response_text) = <<>> THEN Raised(ValueError(MsgEmptyLLM))
    ELSE
    LET text == Strip(response_text)
        dec == SearchDecimal(text)
        int == SearchInteger(text)
        text_lower == Lower(text)
        words == {k \in 1..Len(written_numbers) : Contains(text_lower, written_numbers[k][1])}
    IN  IF dec # <<>> THEN Returned(Clamp(ToFloat(dec)))
        ELSE IF int # <<>> THEN Returned(Clamp(ToFloat(int)))
        ELSE IF words # {}
             THEN Returned(Rat(written_numbers[CHOOSE k \in words : \A m \in words : k <= m][2], 1))
        ELSE Raised(ValueError(MsgNoScore \o text))

(* ------------------------------------------------ parse_secm_response *)

MsgAnswerTag ==
    <<"C", "o", "u", "l", "d", " ", "n", "o", "t", " ", "p", "a", "r", "s", "e", " ", "b", "i", "n", "a", "r", "y", " ", "a", "n", "s", "w", "e", "r", " ", "f", "r", "o", "m", " ", "<", "a", "n", "s", "w", "e", "r", ">", " ", "t", "a", "g", ":", " ">>
MsgNoBinary ==
    <<"C", "o", "u", "l", "d", " ", "n", "o", "t", " ", "e", "x", "t", "r", "a", "c", "t", " ", "b", "i", "n", "a", "r", "y", " ", "a", "n", "s", "w", "e", "r", " ", "f", "r", "o", "m", " ", "r", "e", "s", "p", "o", "n", "s", "e", ":", " ">>
TagReasoningOpen ==
    <<"<", "r", "e", "a", "s", "o", "n", "i", "n", "g", ">">>
TagReasoningClose ==
    <<"<", "/", "r", "e", "a", "s", "o", "n", "i", "n", "g", ">">>
TagAnswerOpen ==
    <<"<", "a", "n", "s", "w", "e", "r", ">">>
TagAnswerClose ==
    <<"<", "/", "a", "n", "s", "w", "e", "r", ">">>
WZero ==
    <<"z", "e", "r", "o">>
WAbsent ==
    <<"a", "b", "s", "e", "n", "t">>
WPresent ==
    <<"p", "r", "e", "s", "e", "n", "t">>
WYes ==
    <<"y", "e", "s">>
WNo ==
    <<"n", "o">>

\* the search without re.IGNORECASE
SearchTagCaseSensitive(text, open, close) ==
    LET o == FindFrom(text, open, 1)
        c == IF o = 0 THEN 0 ELSE FindFrom(text, close, o + Len(open))
    IN  IF o = 0 \/ c = 0 THEN [found |-> FALSE, inner |-> <<>>]
        ELSE [found |-> TRUE, inner |-> SubSeq(text, o + Len(open), c - 1)]

\* re.search(open + r"(.*?)" + close, text, re.DOTALL | re.IGNORECASE):
\* [found, inner] with inner the group 1 of the leftmost, shortest match
SearchTag(text, open, close) ==
    LET low == Lower(text)
        o == FindFrom(low, open, 1)
        c == IF o = 0 THEN 0 ELSE FindFrom(low, close, o + Len(open))
    IN  IF o = 0 \/ c = 0 THEN [found |-> FALSE, inner |-> <<>>]
        ELSE [found |-> TRUE, inner |-> SubSeq(text, o + Len(open), c - 1)]

\* re.search(r"\bD\b", text) for a single digit D
SearchStandalone(text, d) ==
    \E i \in 1..Len(text) : text[i] = d /\ ~WordAt(text, i - 1) /\ ~WordAt(text, i + 1)

\* the tuple (binary_answer, reasoning) the parser returns
Answer(binary_answer, reasoning) ==
    [binary_answer |-> binary_answer, reasoning |-> reasoning]

\* a parser that looks for the signs of 0 before the signs of 1
parse_secm_response_zero_first(response_text) ==
    IF Strip(response_text) = <<>> THEN Raised(ValueError(MsgEmptyLLM))
    ELSE
    LET text == Strip(response_text)
        reasoning_match == SearchTag(text, TagReasoningOpen, TagReasoningClose)
        reasoning == IF reasoning_match.found THEN Strip(reasoning_match.inner) ELSE <<>>
        answer_match == SearchTag(text, TagAnswerOpen, TagAnswerClose)
        answer_text == Strip(answer_match.inner)
    IN  IF answer_match.found
        THEN IF \/ Contains(answer_text, <<"0">>)
                \/ Contains(Lower(answer_text), WZero)
                \/ Contains(Lower(answer_text), WAbsent)
             THEN Returned(Answer(0, reasoning))
             ELSE IF Contains(answer_text, <<"1">>) \/ Contains(Lower(answer_text), WOne)
             THEN Returned(Answer(1, reasoning))
             ELSE Raised(ValueError(MsgAnswerTag \o answer_text))
        ELSE IF \/ SearchStandalone(text, "0")
                \/ Contains(Lower(text), WAbsent)
                \/ Contains(Lower(text), WNo)
             THEN Returned(Answer(0, reasoning))
             ELSE IF \/ SearchStandalone(text, "1")
                     \/ Contains(Lower(text), WPresent)
                     \/ Contains(Lower(text), WYes)
             THEN Returned(Answer(1, reasoning))
             ELSE Raised(ValueError(MsgNoBinary \o text))

\* a parser that scans the whole text when it cannot read the <answer> block
parse_secm_response_fallback(response_text) ==
    IF Strip(response_text) = <<>> THEN Raised(ValueError(MsgEmptyLLM))
    ELSE
    LET text == Strip(response_text)
        reasoning_match == SearchTag(text, TagReasoningOpen, TagReasoningClose)
        reasoning == IF reasoning_match.found THEN Strip(reasoning_match.inner) ELSE <<>>
        answer_match == SearchTag(text, TagAnswerOpen, TagAnswerClose)
        answer_text == Strip(answer_match.inner)
    IN  IF answer_match.found
        THEN IF Contains(answer_text, <<"1">>) \/ Contains(Lower(answer_text), WOne)
             THEN Returned(Answer(1, reasoning))
             ELSE IF \/ Contains(answer_text, <<"0">>)
                     \/ Contains(Lower(answer_text), WZero)
                     \/ Contains(Lower(answer_text), WAbsent)
             THEN Returned(Answer(0, reasoning))
             ELSE IF \/ SearchStandalone(text, "1")
                     \/ Contains(Lower(text), WPresent)
                     \/ Contains(Lower(text), WYes)
             THEN Returned(Answer(1, reasoning))
             ELSE IF \/ SearchStandalone(text, "0")
                     \/ Contains(Lower(text), WAbsent)
                     \/ Contains(Lower(text), WNo)
             THEN Returned(Answer(0, reasoning))
             ELSE Raised(ValueError(MsgAnswerTag \o answer_text))
        ELSE IF \/ SearchStandalone(text, "1")
                \/ Contains(Lower(text), WPresent)
                \/ Contains(Lower(text), WYes)
             THEN Returned(Answer(1, reasoning))
             ELSE IF \/ SearchStandalone(text, "0")
                     \/ Contains(Lower(text), WAbsent)
                     \/ Contains(Lower(text), WNo)
             THEN Returned(Answer(0, reasoning))
             ELSE Raised(ValueError(MsgNoBinary \o text))

parse_secm_response(response_text) ==
    IF Strip(response_text) = <<>> THEN Raised(ValueError(MsgEmptyLLM))
    ELSE
    LET text == Strip(response_text)
        reasoning_match == SearchTag(text, TagReasoningOpen, TagReasoningClose)
        reasoning == IF reasoning_match.found THEN Strip(reasoning_match.inner) ELSE <<>>
        answer_match == SearchTag(text, TagAnswerOpen, TagAnswerClose)
        answer_text == Strip(answer_match.inner)
    IN  IF answer_match.found
        THEN IF Contains(answer_text, <<"1">>) \/ Contains(Lower(answer_text), WOne)
             THEN Returned(Answer(1, reasoning))
             ELSE IF \/ Contains(answer_text, <<"0">>)
                     \/ Contains(Lower(answer_text), WZero)
                     \/ Contains(Lower(answer_text), WAbsent)
             THEN Returned(Answer(0, reasoning))
             ELSE Raised(ValueError(MsgAnswerTag \o answer_text))
        ELSE IF \/ SearchStandalone(text, "1")
                \/ Contains(Lower(text), WPresent)
                \/ Contains(Lower(text), WYes)
             THEN Returned(Answer(1, reasoning))
             ELSE IF \/ SearchStandalone(text, "0")
                     \/ Contains(Lower(text), WAbsent)
                     \/ Contains(Lower(text), WNo)
             THEN Returned(Answer(0, reasoning))
             ELSE Raised(ValueError(MsgNoBinary \o text))

(* --------------------------------------------------- _call_gemini_sync *)

MsgNoKey ==
    <<"G", "E", "M", "I", "N", "I", "_", "A", "P", "I", "_", "K", "E", "Y", " ", "n", "o", "t", " ", "c", "o", "n", "f", "i", "g", "u", "r", "e", "d">>
MsgEmptyGemini ==
    <<"E", "m", "p", "t", "y", " ", "r", "e", "s", "p", "o", "n", "s", "e", " ", "f", "r", "o", "m", " ", "G", "e", "m", "i", "n", "i", " ", "A", "P", "I">>

\* what client.models.generate_content does: it raises, or it returns a result
\* with result.text (<<>> for None or "") and the texts of the parts of the
\* first candidate (<<>> when there is no candidate)
ApiRaises(msg) == [kind |-> "raise", msg |-> msg, text |-> <<>>, parts |-> <<>>]
ApiResult(text, parts) == [kind |-> "result", msg |-> <<>>, text |-> text, parts |-> parts]

NonEmptyText(t) == t # <<>>

\* the transport: one invocation, given the key and what the API does
_call_gemini_sync(key, r) ==
    IF ~key THEN Raised(RuntimeError(MsgNoKey))
    ELSE IF r.kind = "raise" THEN Raised([type |-> "Exception", msg |-> r.msg])
    ELSE
    LET text_parts == SelectSeq(r.parts, NonEmptyText)
        response_text ==
            IF r.text # <<>> THEN r.text
            ELSE IF text_parts # <<>> THEN JoinWith(text_parts, <<" ">>)
            ELSE <<>>
    IN  IF Strip(response_text) = <<>> THEN Raised(RuntimeError(MsgEmptyGemini))
        ELSE Returned(Strip(response_text))

(* ------------------------------------------------------- unit callers *)

MsgDimension ==
    <<"D", "i", "m", "e", "n", "s", "i", "o", "n", " ", "'">>
W503 ==
    <<"5", "0", "3">>
WOverloaded ==
    <<"o", "v", "e", "r", "l", "o", "a", "d", "e", "d">>
WUnavailable ==
    <<"u", "n", "a", "v", "a", "i", "l", "a", "b", "l", "e">>
Default503Delay ==
    <<"5">>

\* default max_retries of call_llm_for_dimension and call_llm_for_secm_variable
DimMaxRetries == 5
SecmMaxRetries == 3
\* default retry_delay of both callers, in seconds
RetryDelay == 1

\* os.getenv(name, default) for a variable that is unset (<<>>) or set
GetEnv(value, default) == IF value = <<>> THEN default ELSE value

\* the test without the words: every text with "503" counts as an overload
IsOverload503Only(e) == Contains(StrOf(e), W503)

\* is_503_overload
IsOverload(e) ==
    /\ Contains(StrOf(e), W503)
    /\ (Contains(Lower(StrOf(e)), WOverloaded) \/ Contains(Lower(StrOf(e)), WUnavailable))

\* retry_delay * (attempt + 1), retry_delay a whole number of seconds
LinearDelay(rd, i) == Rat(rd * (i + 1), 1)

\* the argument of asyncio.sleep in call_llm_for_dimension
DimensionDelay(e, i, rd, env) ==
    IF IsOverload(e) THEN ToFloat(GetEnv(env, Default503Delay))
    ELSE LinearDelay(rd, i)

\* the argument of asyncio.sleep in call_llm_for_secm_variable
SecmDelay(e, i, rd, env) == LinearDelay(rd, i)

MsgSecmVariable ==
    <<"S", "E", "C", "M", " ", "v", "a", "r", "i", "a", "b", "l", "e", " ", "'">>
MsgNoDetails ==
    <<"'", " ", "f", "a", "i", "l", "e", "d", " ", "w", "i", "t", "h", " ", "n", "o", " ", "e", "r", "r", "o", "r", " ", "d", "e", "t", "a", "i", "l", "s">>

\* the RuntimeError raised after a loop that recorded no error
NoDetailsError(k, name) ==
    RuntimeError((IF k = "bias" THEN MsgDimension ELSE MsgSecmVariable) \o name \o MsgNoDetails)

\* a loop that never waits: the next attempt starts as soon as one failed
AttemptsRemainNoWait(i, max) == FALSE

\* attempt < max_retries - 1
AttemptsRemain(i, max) == i < max - 1

\* range(max_retries + 1): one pass too many
InRangeInclusive(i, max) == i <= max

\* attempt is a value of range(max_retries)
InRange(i, max) == i < max

\* "if last_error is None: last_error = e": the first error is kept
RecordErrorFirst(prev, e) == IF prev = [type |-> "None"] THEN e ELSE prev

\* last_error = e
RecordError(prev, e) == e

\* "except RuntimeError as e": a ValueError of the parser is not caught
CaughtRuntimeOnly(e) == e.type # "ValueError"

\* "except Exception as e" catches e
Caught(e) == TRUE

\* the try body of both loops: the transport, then the parser of the caller
TryBody(k, key, r) ==
    LET response == _call_gemini_sync(key, r)
    IN  IF ~response.ok THEN response
        ELSE IF k = "bias" THEN parse_llm_score(response.value)
        ELSE parse_secm_response(response.value)

(* -------------------------------------------------------- orchestrators *)

MsgBiasFailed ==
    <<"B", "i", "a", "s", " ", "r", "a", "t", "i", "n", "g", " ", "f", "a", "i", "l", "e", "d", ":", " ">>
MsgSecmFailed ==
    <<"S", "E", "C", "M", " ", "r", "a", "t", "i", "n", "g", " ", "f", "a", "i", "l", "e", "d", ":", " ">>
MsgVariable ==
    <<"V", "a", "r", "i", "a", "b", "l", "e", " ", "'">>
MsgQuoteColon ==
    <<"'", ":", " ">>
MsgJoin ==
    <<";", " ">>

HTTPException(status, detail) ==
    [type |-> "HTTPException", status_code |-> status, detail |-> detail]

None == [type |-> "None"]

\* what a task holds: nothing yet, the value returned or the exception raised
Pending == [tag |-> "none", value |-> None, error |-> None]
Value(v) == [tag |-> "value", value |-> v, error |-> None]
Error(e) == [tag |-> "error", value |-> None, error |-> e]

\* isinstance(result, Exception), for an entry of the results list of
\* asyncio.gather(..., return_exceptions=True)
IsException(result) == result.tag = "error"

\* f"Dimension '{dim_name}': {str(result)}" and f"Variable '{var_name}': {str(result)}"
ErrorLine(k, name, e) ==
    (IF k = "bias" THEN MsgDimension ELSE MsgVariable) \o name \o MsgQuoteColon \o StrOf(e)

RECURSIVE CollectErrorsByReason(_, _, _, _)
\* the errors kept one per reason: a failure whose reason an earlier unit
\* already gave is not listed again
CollectErrorsByReason(k, names, results, n) ==
    IF n = 0 THEN <<>>
    ELSE IF /\ IsException(results[n])
            /\ \A m \in 1..(n - 1) :
                  ~(IsException(results[m]) /\ StrOf(results[m].error) = StrOf(results[n].error))
         THEN Append(CollectErrorsByReason(k, names, results, n - 1),
                     ErrorLine(k, names[n], results[n].error))
         ELSE CollectErrorsByReason(k, names, results, n - 1)

RECURSIVE CollectErrorsNewestFirst(_, _, _, _)
\* errors.insert(0, ...): the list with the latest failure first
CollectErrorsNewestFirst(k, names, results, n) ==
    IF n = 0 THEN <<>>
    ELSE IF IsException(results[n])
         THEN <<ErrorLine(k, names[n], results[n].error)>>
                  \o CollectErrorsNewestFirst(k, names, results, n - 1)
         ELSE CollectErrorsNewestFirst(k, names, results, n - 1)

RECURSIVE CollectErrors(_, _, _, _)
\* the list errors after the first n results
CollectErrors(k, names, results, n) ==
    IF n = 0 THEN <<>>
    ELSE IF IsException(results[n])
         THEN Append(CollectErrors(k, names, results, n - 1),
                     ErrorLine(k, names[n], results[n].error))
         ELSE CollectErrors(k, names, results, n - 1)

\* the dict scores / variable_results after all results: the value of the last
\* result stored under each name
CollectScores(names, results) ==
    LET stored == {i \in 1..Len(names) : ~IsException(results[i])}
    IN  [nm \in {names[i] : i \in stored} |->
            results[CHOOSE i \in stored :
                        names[i] = nm /\ \A j \in stored : names[j] = nm => j <= i].value]

\* the atomic policy: fail as soon as one unit failed
ShouldRaiseAtomic(sc, errs) == errs # <<>>

\* fail only when a unit failed: nothing to rate gives an empty result
ShouldRaiseOnFailure(sc, errs) == DOMAIN sc = {} /\ errs # <<>>

\* "if not scores" / "if not variable_results"
ShouldRaise(sc, errs) == DOMAIN sc = {}

\* the detail reports the first failure only
FailureDetailFirst(k, errs) ==
    (IF k = "bias" THEN MsgBiasFailed ELSE MsgSecmFailed)
        \o (IF errs = <<>> THEN <<>> ELSE errs[1])

\* the detail of rate_secm_parallel pasted into rate_bias_parallel
FailureDetailPasted(k, errs) == MsgSecmFailed \o JoinWith(errs, MsgJoin)

FailureDetail(k, errs) ==
    (IF k = "bias" THEN MsgBiasFailed ELSE MsgSecmFailed) \o JoinWith(errs, MsgJoin)

(* ---------------------------------------------------------- score_secm *)

\* the significand bits kept by the floating-point arithmetic of the model;
\* the float of Python keeps 53, rounding half to even
Precision == 8

RECURSIVE Pow2(_)
Pow2(n) == IF n = 0 THEN 1 ELSE 2 * Pow2(n - 1)

RECURSIVE Log2Floor(_, _)
\* the exponent e of a/d (a, d > 0): 2^e <= a/d < 2^(e+1)
Log2Floor(a, d) ==
    IF a >= d
    THEN IF a >= 2 * d THEN 1 + Log2Floor(a, 2 * d) ELSE 0
    ELSE Log2Floor(2 * a, d) - 1

\* the float nearest to the fraction x, ties to the even significand
Round(x) ==
    IF x.num = 0 THEN Rat(0, 1)
    ELSE
    LET s == IF x.num < 0 THEN -1 ELSE 1
        a == s * x.num
        sh == Precision - 1 - Log2Floor(a, x.den)
        yn == IF sh >= 0 THEN a * Pow2(sh) ELSE a
        yd == IF sh >= 0 THEN x.den ELSE x.den * Pow2(-sh)
        m0 == yn \div yd
        rem == yn % yd
        m == IF 2 * rem > yd \/ (2 * rem = yd /\ m0 % 2 = 1) THEN m0 + 1 ELSE m0
    IN  IF sh >= 0 THEN Rat(s * m, Pow2(sh)) ELSE Rat(s * m * Pow2(-sh), 1)

\* int + float
FloatAdd(n, x) == Round(Rat(n * x.den + x.num, x.den))

\* int / float (the float is positive)
FloatDiv(n, x) == Round(Rat(n * x.den, x.num))

left_vars ==
    << "secm_ideol_l1_systemic_naming", "secm_ideol_l2_power_gap_lexicon",
       "secm_ideol_l3_elite_culpability", "secm_ideol_l4_resource_redistribution",
       "secm_ideol_l5_change_as_justice", "secm_ideol_l6_care_harm" >>
right_vars ==
    << "secm_ideol_r1_agentic_culpability", "secm_ideol_r2_order_lexicon",
       "secm_ideol_r3_institutional_defense", "secm_ideol_r4_meritocratic_defense",
       "secm_ideol_r5_change_as_threat", "secm_ideol_r6_sanctity_degradation" >>
high_vars ==
    << "secm_epist_h1_primary_documentation", "secm_epist_h2_adversarial_sourcing",
       "secm_epist_h3_specific_attribution", "secm_epist_h4_data_contextualization",
       "secm_epist_h5_methodological_transparency" >>
low_vars ==
    << "secm_epist_e1_emotive_adjectives", "secm_epist_e2_labeling_othering",
       "secm_epist_e3_causal_certainty", "secm_epist_e4_imperative_direct_address",
       "secm_epist_e5_motivated_reasoning" >>

\* variable_values.get(var, 1)
GetDefaultOne(variable_values, var) ==
    IF var \in DOMAIN variable_values THEN variable_values[var] ELSE 1

\* variable_values.get(var, 0)
Get(variable_values, var) ==
    IF var \in DOMAIN variable_values THEN variable_values[var] ELSE 0

RECURSIVE Sum(_, _)
\* sum(variable_values.get(var, 0) for var in names)
Sum(variable_values, names) ==
    IF names = <<>> THEN 0
    ELSE Get(variable_values, names[1]) + Sum(variable_values, Tail(names))

score_secm(variable_values, k) ==
    LET L == Sum(variable_values, left_vars)
        R == Sum(variable_values, right_vars)
        H == Sum(variable_values, high_vars)
        E == Sum(variable_values, low_vars)
    IN  [ideological_score |-> FloatDiv(R - L, FloatAdd(R + L, k)),
         epistemic_score |-> FloatDiv(H - E, FloatAdd(H + E, k))]

(* ------------------------------------------------- the overall bias score *)

\* float + float, float - float, float * float, float / float (a positive one)
Plus(x, y) == Round(Rat(x.num * y.den + y.num * x.den, x.den * y.den))
Minus(x, y) == Round(Rat(x.num * y.den - y.num * x.den, x.den * y.den))
Times(x, y) == Round(Rat(x.num * y.num, x.den * y.den))
Over(x, y) == Round(Rat(x.num * y.den, x.den * y.num))

\* (score - from_min) / (from_max - from_min) * (to_max - to_min) + to_min
normalize_score_to_range(score, from_min, from_max, to_min, to_max) ==
    Plus(Times(Over(Minus(score, from_min), Minus(from_max, from_min)),
               Minus(to_max, to_min)),
         to_min)

\* normalize_score_to_range(score) with the defaults 1.0, 7.0, -1.0, 1.0
Normalize(score) ==
    normalize_score_to_range(score, Rat(1, 1), Rat(7, 1), Rat(-1, 1), Rat(1, 1))

\* the names of the four dimensions, in the order the route reads them
DimensionNames == <<"partisan_bias", "affective_bias", "framing_bias", "sourcing_bias">>

\* scores.get(name): the value, or None
GetOrNone(d, name) == IF name \in DOMAIN d THEN d[name] ELSE None

RECURSIVE SumFloats(_)
\* sum(values): 0 + values[1] + values[2] + ...
SumFloats(values) ==
    IF values = <<>> THEN Rat(0, 1)
    ELSE Plus(SumFloats(SubSeq(values, 1, Len(values) - 1)), values[Len(values)])

\* [s for s in [partisan_bias, affective_bias, framing_bias, sourcing_bias] if s is not None]
ValidScores(d) ==
    LET present == {i \in 1..Len(DimensionNames) : GetOrNone(d, DimensionNames[i]) # None}
    IN  [n \in 1..Cardinality(present) |->
            d[DimensionNames[CHOOSE i \in present : Cardinality({j \in present : j < i}) = n - 1]]]

\* the average over all four dimensions
AverageOfFour(values) == Over(SumFloats(values), Rat(Len(DimensionNames), 1))

\* sum(valid_scores) / len(valid_scores)
Average(values) == Over(SumFloats(values), Rat(Len(values), 1))

\* analyze_article_bias: overall_bias_score of the dict scores of rate_bias
overall_bias_score(d) ==
    IF ValidScores(d) # <<>> THEN Normalize(Average(ValidScores(d))) ELSE None

(* ---------------------------------------------------------- the inputs *)

\* the largest catalog of an orchestration run
MaxUnits == 2
\* the largest max_retries and retry_delay of a direct call of a unit caller
MaxRetriesArg == 5
MaxRetryDelayArg == 2

\* names of the units of a catalog, in catalog order
CatalogNames == << <<"A">>, <<"B">>, <<"C">>, <<"D">> >>

\* what the API may do on one call during an orchestration run: a text that
\* both parsers accept, one that only parse_llm_score accepts, one that
\* neither accepts, a failure, an overload failure
RunOutcomes ==
    { ApiResult(<<"<", "a", "n", "s", "w", "e", "r", ">", "1", "<", "/", "a", "n", "s", "w", "e", "r", ">">>, <<>>),
      ApiResult(<<"9">>, <<>>),
      ApiResult(<<"N", "/", "A">>, <<>>),
      ApiRaises(<<"A", "P", "I", " ", "t", "i", "m", "e", "o", "u", "t">>),
      ApiRaises(<<"5", "0", "3", " ", "U", "N", "A", "V", "A", "I", "L", "A", "B", "L", "E">>) }

\* what the API may do on one call of a unit caller called directly
CallerOutcomes ==
    RunOutcomes \cup
    { ApiResult(<<>>, << <<>>, <<" ", "6", ".", "5">> >>),
      ApiResult(<<>>, <<>>),
      ApiResult(<<"a", "5", "0", "3", "b", " ", "O", "v", "e", "r", "l", "o", "a", "d", "e", "d">>, <<>>),
      ApiRaises(<<"5", "0", "3", " ", "e", "r", "r", "o", "r">>),
      ApiRaises(<<"S", "e", "r", "v", "i", "c", "e", " ", "u", "n", "a", "v", "a", "i", "l", "a", "b", "l", "e">>),
      ApiRaises(<<"5", "0", "3", " ", "T", "h", "e", " ", "m", "o", "d", "e", "l", " ", "i", "s", " ", "O", "v", "e", "r", "l", "o", "a", "d", "e", "d">>) }

\* GEMINI_503_RETRY_DELAY: unset, or set
Env503Values == { <<>>, <<"8">> }

\* the longest text of characters and of words handed to a parser
MaxChars == 4
MaxWords == 3

\* characters of short responses: a sign, a point, digits below, inside and
\* above the range, white space, a letter
TextChars == {"-", ".", "0", "5", "8", " ", "a"}

\* words of longer responses
TextWords ==
    { <<"1">>,
      <<"0">>,
      <<" ">>,
      <<"y", "e", "s">>,
      <<"n", "o">>,
      <<"p", "r", "e", "s", "e", "n", "t">>,
      <<"A", "b", "s", "e", "n", "t">>,
      <<"u", "n", "k", "n", "o", "w", "n">>,
      <<"o", "n", "e">>,
      <<"S", "E", "V", "E", "N">>,
      <<"N", "/", "A">> }

\* responses that hold tagged blocks: text, reasoning block, text, answer
\* block, text
TextBefore ==
    { <<>>,
      <<"y", "e", "s", " ">>,
      <<"0", "\n">> }
TextReasoning ==
    { <<>>,
      <<"<", "r", "e", "a", "s", "o", "n", "i", "n", "g", ">", " ", "a", "\n", "b", " ", "<", "/", "r", "e", "a", "s", "o", "n", "i", "n", "g", ">">>,
      <<"<", "R", "E", "A", "S", "O", "N", "I", "N", "G", ">", "n", "o", " ", "1", "<", "/", "R", "e", "a", "s", "o", "n", "i", "n", "g", ">", "\n">>,
      <<"<", "r", "e", "a", "s", "o", "n", "i", "n", "g", ">", "x">> }
TextAnswer ==
    { <<>>,
      <<"<", "a", "n", "s", "w", "e", "r", ">", "1", "<", "/", "a", "n", "s", "w", "e", "r", ">">>,
      <<"<", "A", "n", "s", "w", "e", "r", ">", " ", "0", "\n", "<", "/", "A", "N", "S", "W", "E", "R", ">">>,
      <<"<", "a", "n", "s", "w", "e", "r", ">", "O", "N", "E", "<", "/", "a", "n", "s", "w", "e", "r", ">">>,
      <<"<", "a", "n", "s", "w", "e", "r", ">", "a", "b", "s", "e", "n", "t", "<", "/", "a", "n", "s", "w", "e", "r", ">">>,
      <<"<", "a", "n", "s", "w", "e", "r", ">", "Z", "e", "r", "o", "<", "/", "a", "n", "s", "w", "e", "r", ">">>,
      <<"<", "a", "n", "s", "w", "e", "r", ">", "m", "a", "y", "b", "e", "<", "/", "a", "n", "s", "w", "e", "r", ">">>,
      <<"<", "a", "n", "s", "w", "e", "r", ">", "<", "/", "a", "n", "s", "w", "e", "r", ">">>,
      <<"<", "a", "n", "s", "w", "e", "r", ">", "y", "e", "s", "<", "/", "a", "n", "s", "w", "e", "r", ">">>,
      <<"<", "a", "n", "s", "w", "e", "r", ">", "1", "0", "<", "/", "a", "n", "s", "w", "e", "r", ">">>,
      <<"<", "a", "n", "s", "w", "e", "r", ">", "1">> }
TextAfter ==
    { <<>>,
      <<" ", "p", "r", "e", "s", "e", "n", "t">>,
      <<"\n", "0">>,
      <<"<", "a", "n", "s", "w", "e", "r", ">", "1", "<", "/", "a", "n", "s", "w", "e", "r", ">">> }

RECURSIVE Strings(_, _)
\* the sequences of at most n elements of S
Strings(S, n) ==
    IF n = 0 THEN {<<>>}
    ELSE LET shorter == Strings(S, n - 1)
         IN  shorter \cup {Append(s, c) : s \in shorter, c \in S}

RECURSIVE Concat(_)
\* the texts of a sequence, one after the other
Concat(ws) == IF ws = <<>> THEN <<>> ELSE ws[1] \o Concat(Tail(ws))

\* the texts a parser is called on
\* the most tokens of a response that holds a score
MaxTokens == 3

\* tokens of responses that hold a score: an integer above the range, a
\* decimal inside it, white space, a letter, number words, a word that holds one
ScoreTokens ==
    { <<"8">>,
      <<"5", ".", "8">>,
      <<" ">>,
      <<"a">>,
      <<"o", "n", "e">>,
      <<"S", "E", "V", "E", "N">>,
      <<"n", "o", "n", "e">> }

Texts ==
    Strings(TextChars, MaxChars)
        \cup {Concat(ws) : ws \in Strings(TextWords, MaxWords)}
        \cup {Concat(ws) : ws \in Strings(ScoreTokens, MaxTokens)}
        \cup {b \o r \o a \o e : b \in TextBefore, r \in TextReasoning, a \in TextAnswer, e \in TextAfter}

\* the largest value of a marker that is not binary
MaxValue == 2

AllMarkers == Range(left_vars) \cup Range(right_vars) \cup Range(high_vars) \cup Range(low_vars)

\* the markers a map of binary values holds as 1: any left and right ones, or
\* any high-integrity and low-integrity ones
MarkerSets ==
    {l \cup r : l \in SUBSET Range(left_vars), r \in SUBSET Range(right_vars)}
        \cup {h \cup e : h \in SUBSET Range(high_vars), e \in SUBSET Range(low_vars)}

\* the maps score_secm is called on: binary and partial (the other markers
\* missing), binary and complete (the other markers 0), and maps of values
\* 0..MaxValue over one marker of each list and a name of no list
ValueMaps ==
    {[v \in ones |-> 1] : ones \in MarkerSets}
        \cup {[v \in AllMarkers |-> IF v \in ones THEN 1 ELSE 0] : ones \in MarkerSets}
        \cup [{left_vars[1], right_vars[1], high_vars[1], low_vars[1]} -> 0..MaxValue]
        \cup {[v \in {right_vars[2], "secm_other"} |-> 1]}

\* the values of a dimension in the dict scores: floats of the range 1..7
DimValues ==
    { Rat(1, 1), Rat(5, 2), Rat(4, 1), Rat(5, 1), Round(Rat(29, 5)), Rat(7, 1) }

\* the dicts rate_bias may return to the route and the rows may hold: every
\* set of dimensions, every value of each
ScoreMaps ==
    UNION {[S -> DimValues] : S \in SUBSET Range(DimensionNames)}

\* the damping constants score_secm is called with: the default 4.0, two
\* smaller ones, and one below half the spacing of the floats next to 1
KValues == {Rat(4, 1), Rat(1, 1), Rat(1, 2), Rat(1, Pow2(Precision + 1))}

\* the transport and the try body on every input of the model, computed once
CallTable ==
    [key \in BOOLEAN, r \in CallerOutcomes |-> _call_gemini_sync(key, r)]
TryTable ==
    [k \in {"bias", "secm"}, key \in BOOLEAN, r \in CallerOutcomes |-> TryBody(k, key, r)]

(* ------------------------------------------------------------ the state *)

VARIABLES
    kind,         \* "bias": the dimension caller and rate_bias_parallel; "secm": the SECM ones
    catalog,      \* dimension_configs / variable_configs: the names, in order
    api_key,      \* GEMINI_API_KEY is configured
    env503,       \* GEMINI_503_RETRY_DELAY
    max_retries,  \* the argument max_retries of the unit callers
    retry_delay,  \* the argument retry_delay of the unit callers
    api,          \* what the API may do on a call
    pc,           \* per unit task: where its coroutine stands
    attempt,      \* per unit task: the loop variable
    last_error,   \* per unit task: the local last_error
    outcome,      \* per unit task: what the coroutine returned or raised
    delay,        \* per unit task: the argument of the asyncio.sleep under way
    calls,        \* per unit task: invocations of the transport so far
    got,          \* per unit task: the responses of the transport so far
    run_pc,       \* the orchestrator: pending, running, completed, all_failed
    scores,       \* the dict returned by the orchestrator
    errors,       \* the list errors of the orchestrator
    raised,       \* the exception raised by the orchestrator
    warning,      \* the text handed to logging.warning by the orchestrator
    arg_response_text,    \* a direct call of a parser: its argument
    parsed,           \* a direct call of a parser: the parser and what it returned or raised
    arg_variable_values,  \* a direct call of score_secm: its argument variable_values
    secm_k,           \* a direct call of score_secm: its argument k
    final_scores,     \* a direct call of score_secm: the dict it returned
    arg_scores,       \* the overall score computed directly: the dict scores of rate_bias
    overall_result,   \* the overall score computed directly: overall_bias_score
    article,          \* the route: the row of the article asked for
    llm,              \* the route: what the transport answers for each unit
    bias_ratings,     \* the route: the committed rows of the table bias_ratings
    requests          \* the route: per request, where the handler stands and its locals

inputs == <<kind, catalog, api_key, env503, max_retries, retry_delay, api>>
orchestrator == <<run_pc, scores, errors, raised, warning>>
parse_call == <<arg_response_text, parsed>>
score_call == <<arg_variable_values, secm_k, final_scores>>
overall_call == <<arg_scores, overall_result>>
route == <<article, llm, bias_ratings, requests>>
direct == <<parse_call, score_call, overall_call, route>>
vars == <<inputs, pc, attempt, last_error, outcome, delay, calls, got, orchestrator, direct>>

Units == 1..Len(catalog)

DefaultMaxRetries(k) == IF k = "bias" THEN DimMaxRetries ELSE SecmMaxRetries

NoResponse == [n |-> 0, fails |-> 0, last |-> None]

\* the tasks of a catalog before any of them has run
InitTasks(stage) ==
    /\ pc = [u \in 1..Len(catalog) |-> stage]
    /\ attempt = [u \in 1..Len(catalog) |-> 0]
    /\ last_error = [u \in 1..Len(catalog) |-> None]
    /\ outcome = [u \in 1..Len(catalog) |-> Pending]
    /\ delay = [u \in 1..Len(catalog) |-> Rat(0, 1)]
    /\ calls = [u \in 1..Len(catalog) |-> 0]
    /\ got = [u \in 1..Len(catalog) |-> NoResponse]
    /\ scores = <<>>
    /\ errors = <<>>
    /\ raised = None
    /\ warning = <<>>

\* no parser is called directly
NoParseCall ==
    /\ arg_response_text = <<>>
    /\ parsed = None

\* score_secm is not called directly
NoScoreCall ==
    /\ arg_variable_values = <<>>
    /\ secm_k = Rat(4, 1)
    /\ final_scores = None

\* the overall score is not computed directly
NoOverallCall ==
    /\ arg_scores = <<>>
    /\ overall_result = None

\* no request reaches the route
NoRequest ==
    /\ article = "missing"
    /\ llm = <<>>
    /\ bias_ratings = <<>>
    /\ requests = <<>>

NoDirectCall ==
    /\ NoParseCall
    /\ NoScoreCall
    /\ NoOverallCall
    /\ NoRequest

\* no orchestrator and no unit caller is called
NoRun ==
    /\ kind = "bias"
    /\ catalog = <<>>
    /\ api_key = FALSE
    /\ env503 = <<>>
    /\ max_retries = DimMaxRetries
    /\ retry_delay = RetryDelay
    /\ api = {}
    /\ run_pc = "none"
    /\ InitTasks("scheduled")

\* a call of rate_bias_parallel or rate_secm_parallel: the callers get their defaults
InitRun ==
    /\ kind \in {"bias", "secm"}
    /\ catalog \in {SubSeq(CatalogNames, 1, n) : n \in 0..MaxUnits}
    /\ api_key \in BOOLEAN
    /\ env503 \in Env503Values
    /\ max_retries = DefaultMaxRetries(kind)
    /\ retry_delay = RetryDelay
    /\ api = RunOutcomes
    /\ run_pc = "pending"
    /\ InitTasks("not_created")
    /\ NoDirectCall

\* a direct call of call_llm_for_dimension or call_llm_for_secm_variable
InitCaller ==
    /\ kind \in {"bias", "secm"}
    /\ catalog \in {<<CatalogNames[1]>>}
    /\ api_key \in BOOLEAN
    /\ env503 \in Env503Values
    /\ max_retries \in 0..MaxRetriesArg
    /\ retry_delay \in 1..MaxRetryDelayArg
    /\ api = CallerOutcomes
    /\ run_pc = "none"
    /\ InitTasks("scheduled")
    /\ NoDirectCall

\* the program is entered through an orchestrator or through a unit caller
Init == InitRun \/ InitCaller

(* ---------------------------------------------------------- the actions *)

\* rate_bias_parallel / rate_secm_parallel up to the await of asyncio.gather:
\* one coroutine per unit of the catalog, all scheduled
Gather ==
    /\ run_pc = "pending"
    /\ run_pc' = "running"
    /\ pc' = [u \in Units |-> "scheduled"]
    /\ UNCHANGED <<inputs, direct, attempt, last_error, outcome, delay, calls, got,
                   scores, errors, raised, warning>>

\* the tasks run in a group that cancels the siblings of a task that raises
FinishCancelling(u, stage, result) ==
    LET cancelled(v) == v # u /\ stage = "raised" /\ pc[v] \in {"scheduled", "in_thread", "sleeping"}
    IN  /\ pc' = [v \in Units |-> IF v = u THEN stage
                                   ELSE IF cancelled(v) THEN "raised" ELSE pc[v]]
        /\ outcome' = [v \in Units |->
                          IF v = u THEN result
                          ELSE IF cancelled(v)
                               THEN [tag |-> "error", value |-> [type |-> "None"],
                                     error |-> [type |-> "CancelledError", msg |-> <<>>]]
                               ELSE outcome[v]]
        /\ attempt' = [attempt EXCEPT ![u] = 0]
        /\ last_error' = [last_error EXCEPT ![u] = [type |-> "None"]]
        /\ delay' = [delay EXCEPT ![u] = [num |-> 0, den |-> 1]]

\* the coroutine ends: its locals are gone, its result is kept by the task
Finish(u, stage, result) ==
    /\ pc' = [pc EXCEPT ![u] = stage]
    /\ outcome' = [outcome EXCEPT ![u] = result]
    /\ attempt' = [attempt EXCEPT ![u] = 0]
    /\ last_error' = [last_error EXCEPT ![u] = None]
    /\ delay' = [delay EXCEPT ![u] = Rat(0, 1)]

\* pass i of the loop if the range holds i, else the raise after the loop
NextPass(u, i, err) ==
    IF InRange(i, max_retries)
    THEN /\ pc' = [pc EXCEPT ![u] = "in_thread"]
         /\ attempt' = [attempt EXCEPT ![u] = i]
         /\ calls' = [calls EXCEPT ![u] = @ + 1]
         /\ last_error' = [last_error EXCEPT ![u] = err]
         /\ delay' = [delay EXCEPT ![u] = Rat(0, 1)]
         /\ UNCHANGED outcome
    ELSE /\ Finish(u, "raised",
                   Error(IF err # None THEN err ELSE NoDetailsError(kind, catalog[u])))
         /\ UNCHANGED calls

\* the event loop runs a scheduled task up to its first await
TaskStart(u) ==
    /\ pc[u] = "scheduled"
    /\ NextPass(u, 0, None)
    /\ UNCHANGED <<inputs, direct, got, orchestrator>>

\* the delay the caller sleeps after the failure e of pass i
Backoff(k, e, i, rd, env) ==
    IF k = "bias" THEN DimensionDelay(e, i, rd, env) ELSE SecmDelay(e, i, rd, env)

\* the thread ends: the rest of the loop body, up to the next await, the
\* return or the raise after the loop
ThreadEnds(u, r) ==
    /\ pc[u] = "in_thread"
    /\ LET res == TryTable[kind, api_key, r]
       IN  /\ got' = [got EXCEPT ![u] = [n |-> @.n + 1,
                                         fails |-> @.fails + (IF res.ok THEN 0 ELSE 1),
                                         last |-> CallTable[api_key, r]]]
           /\ IF res.ok
              THEN Finish(u, "returned", Value(res.value)) /\ UNCHANGED calls
              ELSE IF ~Caught(res.error)
              THEN Finish(u, "raised", Error(res.error)) /\ UNCHANGED calls
              ELSE IF AttemptsRemain(attempt[u], max_retries)
              THEN /\ pc' = [pc EXCEPT ![u] = "sleeping"]
                   /\ last_error' = [last_error EXCEPT ![u] = RecordError(@, res.error)]
                   /\ delay' = [delay EXCEPT ![u] =
                                   Backoff(kind, res.error, attempt[u], retry_delay, env503)]
                   /\ UNCHANGED <<attempt, outcome, calls>>
              ELSE NextPass(u, attempt[u] + 1, RecordError(last_error[u], res.error))
    /\ UNCHANGED <<inputs, direct, orchestrator>>

\* asyncio.sleep ends: the next pass of the loop starts
SleepEnds(u) ==
    /\ pc[u] = "sleeping"
    /\ NextPass(u, attempt[u] + 1, last_error[u])
    /\ UNCHANGED <<inputs, direct, got, orchestrator>>

TaskDone(u) == pc[u] \in {"returned", "raised"}

\* asyncio.gather(*tasks) without return_exceptions: ready at the first exception
GatherReadyFirstException ==
    (\A u \in Units : TaskDone(u)) \/ (\E u \in Units : pc[u] = "raised")

\* asyncio.gather(*tasks, return_exceptions=True) is ready
GatherReady == \A u \in Units : TaskDone(u)

\* an orchestrator that runs the whole catalog again when every unit failed
AggregateRetrying ==
    /\ run_pc = "running"
    /\ GatherReady
    /\ LET results == [u \in Units |-> outcome[u]]
           errs == CollectErrors(kind, catalog, results, Len(catalog))
           sc == CollectScores(catalog, results)
       IN  /\ errors' = errs
           /\ warning' = IF errs # <<>> THEN JoinWith(errs, MsgJoin) ELSE <<>>
           /\ IF ShouldRaise(sc, errs)
              THEN /\ run_pc' = "pending"
                   /\ pc' = [u \in Units |-> "not_created"]
                   /\ outcome' = [u \in Units |-> Pending]
                   /\ calls' = [u \in Units |-> 0]
                   /\ got' = [u \in Units |-> NoResponse]
                   /\ UNCHANGED <<scores, raised>>
              ELSE /\ run_pc' = "completed"
                   /\ scores' = sc
                   /\ UNCHANGED <<raised, pc, outcome, calls, got>>
    /\ UNCHANGED <<inputs, direct, attempt, last_error, delay>>

\* the orchestrator after the await: partition, log, raise or return
Aggregate ==
    /\ run_pc = "running"
    /\ GatherReady
    /\ LET results == [u \in Units |-> outcome[u]]
           errs == CollectErrors(kind, catalog, results, Len(catalog))
           sc == CollectScores(catalog, results)
       IN  /\ errors' = errs
           /\ warning' = IF errs # <<>> THEN JoinWith(errs, MsgJoin) ELSE <<>>
           /\ IF ShouldRaise(sc, errs)
              THEN /\ run_pc' = "all_failed"
                   /\ raised' = HTTPException(502, FailureDetail(kind, errs))
                   /\ UNCHANGED scores
              ELSE /\ run_pc' = "completed"
                   /\ scores' = sc
                   /\ UNCHANGED raised
    /\ UNCHANGED <<inputs, direct, pc, attempt, last_error, outcome, delay, calls, got>>

Next ==
    \/ Gather
    \/ \E u \in Units : TaskStart(u)
    \/ \E u \in Units : \E r \in api : ThreadEnds(u, r)
    \/ \E u \in Units : SleepEnds(u)
    \/ Aggregate

Spec == Init /\ [][Next]_vars

\* what every step of the program changes: the position of the orchestrator
\* or of a task, or the number of calls of the transport
progress == <<run_pc, pc, calls>>

\* the event loop runs a task that is ready, every call of the transport
\* returns or fails, every asyncio.sleep ends: the program does not stop while
\* one of its steps can be taken
Fairness == WF_progress(Next)

FairSpec == Spec /\ Fairness

(* ------------------------------------------- the parsers, called directly *)

InitParse ==
    /\ NoRun
    /\ arg_response_text \in Texts
    /\ parsed = None
    /\ NoScoreCall
    /\ NoOverallCall
    /\ NoRequest

\* parse_llm_score(response_text)
ParseScore ==
    /\ parsed = None
    /\ parsed' = [by |-> "parse_llm_score", result |-> parse_llm_score(arg_response_text)]
    /\ UNCHANGED <<inputs, pc, attempt, last_error, outcome, delay, calls, got, orchestrator,
                   arg_response_text, score_call, overall_call, route>>

\* parse_secm_response(response_text)
ParseSecm ==
    /\ parsed = None
    /\ parsed' = [by |-> "parse_secm_response", result |-> parse_secm_response(arg_response_text)]
    /\ UNCHANGED <<inputs, pc, attempt, last_error, outcome, delay, calls, got, orchestrator,
                   arg_response_text, score_call, overall_call, route>>

NextParse ==
    \/ ParseScore
    \/ ParseSecm

SpecParse == InitParse /\ [][NextParse]_vars

(* --------------------------------------------- score_secm, called directly *)

InitScore ==
    /\ NoRun
    /\ NoParseCall
    /\ arg_variable_values \in ValueMaps
    /\ secm_k \in KValues
    /\ final_scores = None
    /\ NoOverallCall
    /\ NoRequest

\* score_secm(variable_values, k)
Score ==
    /\ final_scores = None
    /\ final_scores' = score_secm(arg_variable_values, secm_k)
    /\ UNCHANGED <<inputs, pc, attempt, last_error, outcome, delay, calls, got, orchestrator,
                   parse_call, arg_variable_values, secm_k, overall_call, route>>

NextScore == Score

SpecScore == InitScore /\ [][NextScore]_vars

(* --------------------------------- the overall score, computed directly *)

InitOverall ==
    /\ NoRun
    /\ NoParseCall
    /\ NoScoreCall
    /\ arg_scores \in ScoreMaps
    /\ overall_result = None
    /\ NoRequest

\* analyze_article_bias, from the dict scores to overall_bias_score
Overall ==
    /\ overall_result = None
    /\ overall_result' = [value |-> overall_bias_score(arg_scores)]
    /\ UNCHANGED <<inputs, pc, attempt, last_error, outcome, delay, calls, got, orchestrator,
                   parse_call, score_call, arg_scores, route>>

NextOverall == Overall

SpecOverall == InitOverall /\ [][NextOverall]_vars

(* ------------------------------------------- POST /bias_ratings/analyze *)

\* the requests sent for the article
MaxRequests == 2

Requests == 1..MaxRequests

MsgArticleNotFound ==
    <<"A", "r", "t", "i", "c", "l", "e", " ", "1", " ", "n", "o", "t", " ", "f", "o", "u", "n", "d">>
MsgInternalServerError ==
    <<"I", "n", "t", "e", "r", "n", "a", "l", " ", "S", "e", "r", "v", "e", "r", " ", "E", "r", "r", "o", "r">>
MsgExistingAnalysis ==
    <<"E", "x", "i", "s", "t", "i", "n", "g", " ", "a", "n", "a", "l", "y", "s", "i", "s">>
MsgNoTextContent ==
    <<"A", "r", "t", "i", "c", "l", "e", " ", "h", "a", "s", " ", "n", "o", " ", "t", "e", "x", "t", " ", "c", "o", "n", "t", "e", "n", "t", " ", "t", "o", " ", "a", "n", "a", "l", "y", "z", "e">>
TextFive ==
    <<"5">>
TextAnswerOne ==
    <<"<", "a", "n", "s", "w", "e", "r", ">", "1", "<", "/", "a", "n", "s", "w", "e", "r", ">">>
TextAnswerZero ==
    <<"<", "a", "n", "s", "w", "e", "r", ">", "0", "<", "/", "a", "n", "s", "w", "e", "r", ">">>
MsgApiTimeout ==
    <<"A", "P", "I", " ", "t", "i", "m", "e", "o", "u", "t">>

\* the names of the dimensions and of the SECM variables, as texts
NameChars ==
    [ partisan_bias |-> <<"p", "a", "r", "t", "i", "s", "a", "n", "_", "b", "i", "a", "s">>,
      affective_bias |-> <<"a", "f", "f", "e", "c", "t", "i", "v", "e", "_", "b", "i", "a", "s">>,
      framing_bias |-> <<"f", "r", "a", "m", "i", "n", "g", "_", "b", "i", "a", "s">>,
      sourcing_bias |-> <<"s", "o", "u", "r", "c", "i", "n", "g", "_", "b", "i", "a", "s">>,
      secm_ideol_l1_systemic_naming |-> <<"s", "e", "c", "m", "_", "i", "d", "e", "o", "l", "_", "l", "1", "_", "s", "y", "s", "t", "e", "m", "i", "c", "_", "n", "a", "m", "i", "n", "g">>,
      secm_ideol_l2_power_gap_lexicon |-> <<"s", "e", "c", "m", "_", "i", "d", "e", "o", "l", "_", "l", "2", "_", "p", "o", "w", "e", "r", "_", "g", "a", "p", "_", "l", "e", "x", "i", "c", "o", "n">>,
      secm_ideol_l3_elite_culpability |-> <<"s", "e", "c", "m", "_", "i", "d", "e", "o", "l", "_", "l", "3", "_", "e", "l", "i", "t", "e", "_", "c", "u", "l", "p", "a", "b", "i", "l", "i", "t", "y">>,
      secm_ideol_l4_resource_redistribution |-> <<"s", "e", "c", "m", "_", "i", "d", "e", "o", "l", "_", "l", "4", "_", "r", "e", "s", "o", "u", "r", "c", "e", "_", "r", "e", "d", "i", "s", "t", "r", "i", "b", "u", "t", "i", "o", "n">>,
      secm_ideol_l5_change_as_justice |-> <<"s", "e", "c", "m", "_", "i", "d", "e", "o", "l", "_", "l", "5", "_", "c", "h", "a", "n", "g", "e", "_", "a", "s", "_", "j", "u", "s", "t", "i", "c", "e">>,
      secm_ideol_l6_care_harm |-> <<"s", "e", "c", "m", "_", "i", "d", "e", "o", "l", "_", "l", "6", "_", "c", "a", "r", "e", "_", "h", "a", "r", "m">>,
      secm_ideol_r1_agentic_culpability |-> <<"s", "e", "c", "m", "_", "i", "d", "e", "o", "l", "_", "r", "1", "_", "a", "g", "e", "n", "t", "i", "c", "_", "c", "u", "l", "p", "a", "b", "i", "l", "i", "t", "y">>,
      secm_ideol_r2_order_lexicon |-> <<"s", "e", "c", "m", "_", "i", "d", "e", "o", "l", "_", "r", "2", "_", "o", "r", "d", "e", "r", "_", "l", "e", "x", "i", "c", "o", "n">>,
      secm_ideol_r3_institutional_defense |-> <<"s", "e", "c", "m", "_", "i", "d", "e", "o", "l", "_", "r", "3", "_", "i", "n", "s", "t", "i", "t", "u", "t", "i", "o", "n", "a", "l", "_", "d", "e", "f", "e", "n", "s", "e">>,
      secm_ideol_r4_meritocratic_defense |-> <<"s", "e", "c", "m", "_", "i", "d", "e", "o", "l", "_", "r", "4", "_", "m", "e", "r", "i", "t", "o", "c", "r", "a", "t", "i", "c", "_", "d", "e", "f", "e", "n", "s", "e">>,
      secm_ideol_r5_change_as_threat |-> <<"s", "e", "c", "m", "_", "i", "d", "e", "o", "l", "_", "r", "5", "_", "c", "h", "a", "n", "g", "e", "_", "a", "s", "_", "t", "h", "r", "e", "a", "t">>,
      secm_ideol_r6_sanctity_degradation |-> <<"s", "e", "c", "m", "_", "i", "d", "e", "o", "l", "_", "r", "6", "_", "s", "a", "n", "c", "t", "i", "t", "y", "_", "d", "e", "g", "r", "a", "d", "a", "t", "i", "o", "n">>,
      secm_epist_h1_primary_documentation |-> <<"s", "e", "c", "m", "_", "e", "p", "i", "s", "t", "_", "h", "1", "_", "p", "r", "i", "m", "a", "r", "y", "_", "d", "o", "c", "u", "m", "e", "n", "t", "a", "t", "i", "o", "n">>,
      secm_epist_h2_adversarial_sourcing |-> <<"s", "e", "c", "m", "_", "e", "p", "i", "s", "t", "_", "h", "2", "_", "a", "d", "v", "e", "r", "s", "a", "r", "i", "a", "l", "_", "s", "o", "u", "r", "c", "i", "n", "g">>,
      secm_epist_h3_specific_attribution |-> <<"s", "e", "c", "m", "_", "e", "p", "i", "s", "t", "_", "h", "3", "_", "s", "p", "e", "c", "i", "f", "i", "c", "_", "a", "t", "t", "r", "i", "b", "u", "t", "i", "o", "n">>,
      secm_epist_h4_data_contextualization |-> <<"s", "e", "c", "m", "_", "e", "p", "i", "s", "t", "_", "h", "4", "_", "d", "a", "t", "a", "_", "c", "o", "n", "t", "e", "x", "t", "u", "a", "l", "i", "z", "a", "t", "i", "o", "n">>,
      secm_epist_h5_methodological_transparency |-> <<"s", "e", "c", "m", "_", "e", "p", "i", "s", "t", "_", "h", "5", "_", "m", "e", "t", "h", "o", "d", "o", "l", "o", "g", "i", "c", "a", "l", "_", "t", "r", "a", "n", "s", "p", "a", "r", "e", "n", "c", "y">>,
      secm_epist_e1_emotive_adjectives |-> <<"s", "e", "c", "m", "_", "e", "p", "i", "s", "t", "_", "e", "1", "_", "e", "m", "o", "t", "i", "v", "e", "_", "a", "d", "j", "e", "c", "t", "i", "v", "e", "s">>,
      secm_epist_e2_labeling_othering |-> <<"s", "e", "c", "m", "_", "e", "p", "i", "s", "t", "_", "e", "2", "_", "l", "a", "b", "e", "l", "i", "n", "g", "_", "o", "t", "h", "e", "r", "i", "n", "g">>,
      secm_epist_e3_causal_certainty |-> <<"s", "e", "c", "m", "_", "e", "p", "i", "s", "t", "_", "e", "3", "_", "c", "a", "u", "s", "a", "l", "_", "c", "e", "r", "t", "a", "i", "n", "t", "y">>,
      secm_epist_e4_imperative_direct_address |-> <<"s", "e", "c", "m", "_", "e", "p", "i", "s", "t", "_", "e", "4", "_", "i", "m", "p", "e", "r", "a", "t", "i", "v", "e", "_", "d", "i", "r", "e", "c", "t", "_", "a", "d", "d", "r", "e", "s", "s">>,
      secm_epist_e5_motivated_reasoning |-> <<"s", "e", "c", "m", "_", "e", "p", "i", "s", "t", "_", "e", "5", "_", "m", "o", "t", "i", "v", "a", "t", "e", "d", "_", "r", "e", "a", "s", "o", "n", "i", "n", "g">> ]

\* the 22 variable configurations of the SECM configuration, in the order of
\* the four clusters
SecmVariableNames == left_vars \o right_vars \o high_vars \o low_vars

\* the constant K of the SECM configuration
SecmK == Rat(4, 1)

\* one more call of the transport
Counted(rest) == [result |-> rest.result, n |-> rest.n + 1]

RECURSIVE UnitLoop(_, _, _, _, _, _, _)
RECURSIVE AfterTry(_, _, _, _, _, _, _, _)
\* the loop of a unit caller from pass i on, against a transport that does r
\* on every call: what the coroutine returns or raises, and the calls it made
UnitLoop(k, key, r, name, i, max, err) ==
    IF ~InRange(i, max)
    THEN [result |-> Error(IF err # None THEN err ELSE NoDetailsError(k, name)), n |-> 0]
    ELSE AfterTry(k, key, r, name, i, max, err, TryBody(k, key, r))

\* pass i after its try body gave res: return, raise, or go on with the loop
AfterTry(k, key, r, name, i, max, err, res) ==
    IF res.ok THEN [result |-> Value(res.value), n |-> 1]
    ELSE IF ~Caught(res.error) THEN [result |-> Error(res.error), n |-> 1]
    ELSE Counted(UnitLoop(k, key, r, name, i + 1, max, RecordError(err, res.error)))

RECURSIVE UnitRuns(_, _, _, _, _)
\* the tasks of the first m units of a catalog, each run to its end
UnitRuns(k, key, names, behaviour, m) ==
    IF m = 0 THEN <<>>
    ELSE Append(UnitRuns(k, key, names, behaviour, m - 1),
                UnitLoop(k, key, behaviour[m], NameChars[names[m]], 0,
                         DefaultMaxRetries(k), None))

RECURSIVE TotalOf(_, _)
\* the calls of the first m units
TotalOf(units, m) == IF m = 0 THEN 0 ELSE units[m].n + TotalOf(units, m - 1)

RECURSIVE ResultsOf(_, _)
\* the list results of asyncio.gather for the first m units
ResultsOf(units, m) ==
    IF m = 0 THEN <<>> ELSE Append(ResultsOf(units, m - 1), units[m].result)

RECURSIVE CharsOf(_, _)
\* the first m names of a catalog, as texts
CharsOf(names, m) ==
    IF m = 0 THEN <<>> ELSE Append(CharsOf(names, m - 1), NameChars[names[m]])

\* the orchestrator after the await: the dict returned or the exception raised
Partition(k, names, texts, results, n) ==
    [n |-> n,
     raised |-> IF ShouldRaise(CollectScores(names, results),
                               CollectErrors(k, texts, results, Len(names)))
                THEN HTTPException(502, FailureDetail(k, CollectErrors(k, texts, results, Len(names))))
                ELSE None,
     value |-> CollectScores(names, results)]

\* the results of the tasks, and the invocations of the transport
Gathered(k, names, units) ==
    Partition(k, names, CharsOf(names, Len(names)), ResultsOf(units, Len(names)),
              TotalOf(units, Len(names)))

\* rate_bias_parallel / rate_secm_parallel against the transport behaviour
RunParallel(k, key, names, behaviour) ==
    Gathered(k, names, UnitRuns(k, key, names, behaviour, Len(names)))

\* the row new_rating, with the rating_id given by the autoincrement
BiasRating(rating_id, overall, d, secm_result) ==
    [rating_id |-> rating_id,
     article_id |-> 1,
     bias_score |-> overall,
     partisan_bias |-> GetOrNone(d, "partisan_bias"),
     affective_bias |-> GetOrNone(d, "affective_bias"),
     framing_bias |-> GetOrNone(d, "framing_bias"),
     sourcing_bias |-> GetOrNone(d, "sourcing_bias"),
     reasoning |-> None,
     secm_ideological_score |-> secm_result.ideological_score,
     secm_epistemic_score |-> secm_result.epistemic_score,
     secm_variables |-> [name \in Range(SecmVariableNames) |->
                            GetOrNone(secm_result.variables, name)]]

\* get_all_dimension_scores
get_all_dimension_scores(row) ==
    [partisan_bias |-> row.partisan_bias,
     affective_bias |-> row.affective_bias,
     framing_bias |-> row.framing_bias,
     sourcing_bias |-> row.sourcing_bias]

\* get_overall_bias_score
get_overall_bias_score(row) ==
    LET valid_scores ==
            SelectSeq(<<row.partisan_bias, row.affective_bias,
                        row.framing_bias, row.sourcing_bias>>,
                      LAMBDA s : s # None)
    IN  IF valid_scores = <<>> THEN None ELSE Average(valid_scores)

\* what the handler answers: an AnalyzeArticleResponse or an HTTPException
Ok(rating_id, bias_score, reasoning, dims, row_scores, ideological, epistemic) ==
    [status_code |-> 200,
     detail |-> <<>>,
     rating_id |-> rating_id,
     article_id |-> 1,
     bias_score |-> bias_score,
     reasoning |-> reasoning,
     scores |-> dims,
     partisan_bias |-> row_scores.partisan_bias,
     affective_bias |-> row_scores.affective_bias,
     framing_bias |-> row_scores.framing_bias,
     sourcing_bias |-> row_scores.sourcing_bias,
     secm_ideological_score |-> ideological,
     secm_epistemic_score |-> epistemic]

Refused(e) == [status_code |-> e.status_code, detail |-> e.detail]

\* the field scores: dict[str, float] of AnalyzeArticleResponse accepts dims
ValidScoresField(dims) == \A name \in DOMAIN dims : dims[name] # None

\* the answer built from existing_rating; a dict of scores that holds None
\* is refused by the response model, outside the try block of the handler
ExistingResponse(row) ==
    LET overall_score == get_overall_bias_score(row)
    IN  IF ~ValidScoresField(get_all_dimension_scores(row))
        THEN Refused(HTTPException(500, MsgInternalServerError))
        ELSE Ok(row.rating_id,
                IF overall_score # None THEN Normalize(overall_score) ELSE None,
                IF row.reasoning # None THEN row.reasoning.msg ELSE <<>>,
                get_all_dimension_scores(row), row,
                row.secm_ideological_score, row.secm_epistemic_score)

\* a handler that has not been entered
NotSent ==
    [pc |-> "not_sent", response |-> None, transport_calls |-> 0,
     existing_rating |-> None, bias_result |-> None, overall |-> None]

\* what the transport does for the four dimensions: "5" for each; a failure
\* for each; "5", a failure, "9" and a text without a score
BiasBehaviours ==
    { [u \in 1..4 |-> ApiResult(TextFive, <<>>)],
      [u \in 1..4 |-> ApiRaises(MsgApiTimeout)],
      << ApiResult(TextFive, <<>>), ApiRaises(MsgApiTimeout),
         ApiResult(<<"9">>, <<>>), ApiResult(<<"N", "/", "A">>, <<>>) >> }

\* what the transport does for the 22 variables: "5" for each; a failure for
\* each; 1 for each; 1 for the first right marker and 0 for the others
SecmBehaviours ==
    { [u \in 1..22 |-> ApiResult(TextFive, <<>>)],
      [u \in 1..22 |-> ApiRaises(MsgApiTimeout)],
      [u \in 1..22 |-> ApiResult(TextAnswerOne, <<>>)],
      [u \in 1..22 |-> IF SecmVariableNames[u] = right_vars[1]
                        THEN ApiResult(TextAnswerOne, <<>>)
                        ELSE ApiResult(TextAnswerZero, <<>>)] }

\* the rows the table may hold for the article before the requests: one rated
\* on the four dimensions by the earlier system, one whose dimensions are null
ExistingRows ==
    { [BiasRating(1, Rat(9, 2),
                  [name \in Range(DimensionNames) |->
                      IF name = "partisan_bias" THEN Rat(3, 1)
                      ELSE IF name = "affective_bias" THEN Rat(4, 1)
                      ELSE IF name = "framing_bias" THEN Rat(5, 1) ELSE Rat(6, 1)],
                  [ideological_score |-> None, epistemic_score |-> None,
                   variables |-> <<>>])
          EXCEPT !.reasoning = [type |-> "str", msg |-> MsgExistingAnalysis]],
      BiasRating(1, Rat(1, 5), <<>>,
                 [ideological_score |-> None, epistemic_score |-> None,
                  variables |-> <<>>]) }

InitAnalyze ==
    /\ kind = "bias"
    /\ catalog = <<>>
    /\ api_key \in BOOLEAN
    /\ env503 = <<>>
    /\ max_retries = DimMaxRetries
    /\ retry_delay = RetryDelay
    /\ api = {}
    /\ run_pc = "none"
    /\ InitTasks("scheduled")
    /\ NoParseCall
    /\ NoScoreCall
    /\ NoOverallCall
    /\ article \in {"missing", "no_text", "ok"}
    /\ llm \in [bias : BiasBehaviours, secm : SecmBehaviours]
    /\ bias_ratings \in {<<>>} \cup {<<row>> : row \in ExistingRows}
    /\ requests = [r \in Requests |-> NotSent]

\* the handler ends with the answer resp, after n more calls of the transport
Answered(r, resp, n) ==
    requests' = [requests EXCEPT ![r] =
                    [pc |-> "done", response |-> resp,
                     transport_calls |-> @.transport_calls + n,
                     existing_rating |-> @.existing_rating,
                     bias_result |-> None, overall |-> None]]

\* the same, for a handler that found the row existing_rating
AnsweredExisting(r, row) ==
    requests' = [requests EXCEPT ![r] =
                    [pc |-> "done", response |-> ExistingResponse(row),
                     transport_calls |-> @.transport_calls,
                     existing_rating |-> row,
                     bias_result |-> None, overall |-> None]]

\* analyze_article_bias from its first line to the await in rate_bias: the
\* article, the existing rating, the configuration and the API key
Analyze(r) ==
    /\ requests[r].pc = "not_sent"
    /\ IF article = "missing"
       THEN Answered(r, Refused(HTTPException(404, MsgArticleNotFound)), 0)
       ELSE IF article = "no_text"
       THEN Answered(r, Refused(HTTPException(422, MsgNoTextContent)), 0)
       ELSE IF bias_ratings # <<>>
       THEN AnsweredExisting(r, bias_ratings[1])
       ELSE IF ~api_key
       THEN Answered(r, Refused(HTTPException(500, MsgNoKey)), 0)
       ELSE requests' = [requests EXCEPT ![r].pc = "in_rate_bias"]
    /\ UNCHANGED <<inputs, pc, attempt, last_error, outcome, delay, calls, got, orchestrator,
                   parse_call, score_call, overall_call, article, llm, bias_ratings>>

\* rate_bias_parallel returns or raises: the rest of rate_bias, the overall
\* score, and rate_secm up to its await
BiasReturns(r) ==
    /\ requests[r].pc = "in_rate_bias"
    /\ \E run \in {RunParallel("bias", api_key, DimensionNames, llm.bias)} :
          IF run.raised # None
          THEN Answered(r, Refused(run.raised), run.n)
          ELSE requests' = [requests EXCEPT ![r] =
                               [pc |-> "in_rate_secm", response |-> None,
                                transport_calls |-> @.transport_calls + run.n,
                                existing_rating |-> None,
                                bias_result |-> [scores |-> run.value],
                                overall |-> overall_bias_score(run.value)]]
    /\ UNCHANGED <<inputs, pc, attempt, last_error, outcome, delay, calls, got, orchestrator,
                   parse_call, score_call, overall_call, article, llm, bias_ratings>>

\* rate_secm: the dict it returns from the dict of rate_secm_parallel
SecmResult(variable_results) ==
    LET variables == [name \in DOMAIN variable_results |->
                         variable_results[name].binary_answer]
        final == score_secm(variables, SecmK)
    IN  [ideological_score |-> final.ideological_score,
         epistemic_score |-> final.epistemic_score,
         variables |-> variables]

\* rate_secm_parallel returns or raises: the rest of rate_secm, the new row,
\* the commit and the answer
SecmReturns(r) ==
    /\ requests[r].pc = "in_rate_secm"
    /\ \E run \in {RunParallel("secm", api_key, SecmVariableNames, llm.secm)} :
          IF run.raised # None
          THEN /\ Answered(r, Refused(run.raised), run.n)
               /\ UNCHANGED bias_ratings
          ELSE \E new_rating \in {BiasRating(Len(bias_ratings) + 1, requests[r].overall,
                                             requests[r].bias_result.scores,
                                             SecmResult(run.value))} :
                  /\ bias_ratings' = Append(bias_ratings, new_rating)
                  /\ Answered(r, Ok(new_rating.rating_id, requests[r].overall, <<>>,
                                    requests[r].bias_result.scores, new_rating,
                                    new_rating.secm_ideological_score,
                                    new_rating.secm_epistemic_score), run.n)
    /\ UNCHANGED <<inputs, pc, attempt, last_error, outcome, delay, calls, got, orchestrator,
                   parse_call, score_call, overall_call, article, llm>>

NextAnalyze ==
    \/ \E r \in Requests : Analyze(r)
    \/ \E r \in Requests : BiasReturns(r)
    \/ \E r \in Requests : SecmReturns(r)

SpecAnalyze == InitAnalyze /\ [][NextAnalyze]_vars

(* ----------------------------------------------------------- the claims *)

Succeeded == {u \in Units : outcome[u].tag = "value"}
Failed == {u \in Units : outcome[u].tag = "error"}
Finished == run_pc \in {"completed", "all_failed"}
IsSuffix(t, s) == Len(t) <= Len(s) /\ SubSeq(s, Len(s) - Len(t) + 1, Len(s)) = t

C4_WaitForAll ==
    /\ [](Finished => \A u \in Units : outcome[u].tag # "none" /\ TaskDone(u))
    /\ [][\A u \in Units :
            (pc[u] # "raised" /\ pc'[u] = "raised") =>
                \A v \in Units \ {u} :
                    /\ pc'[v] = pc[v]
                    /\ attempt'[v] = attempt[v]
                    /\ outcome'[v] = outcome[v]
                    /\ calls'[v] = calls[v]]_vars

\* a unit has failed while a sibling is still retrying and the orchestrator waits
C4_Witness ==
    /\ run_pc = "running"
    /\ \E u, v \in Units :
          /\ pc[u] = "raised"
          /\ pc[v] = "sleeping"
          /\ attempt[v] >= 1

\* the parser of the caller under way, on a text
ParseFor(k, text) == IF k = "bias" THEN parse_llm_score(text) ELSE parse_secm_response(text)

\* the responses the transport can give, and what the parser of each caller
\* makes of them, computed once
Responses == {CallTable[key, r] : key \in BOOLEAN, r \in CallerOutcomes}
Parsed ==
    [k \in {"bias", "secm"}, resp \in Responses |->
        IF resp.ok THEN ParseFor(k, resp.value) ELSE resp]

\* a response of the transport that the parser of the caller accepts
Parses(k, resp) == Parsed[k, resp].ok

\* the value the parser of the caller reads from a response it accepts
ValueOf(k, resp) == Parsed[k, resp].value

\* the error of an attempt whose response resp failed or did not parse
ErrorOf(k, resp) == Parsed[k, resp].error

\* the overload signature of an error text
OverloadText(t) ==
    /\ Contains(t, <<"5", "0", "3">>)
    /\ (Contains(Lower(t), <<"o", "v", "e", "r", "l", "o", "a", "d", "e", "d">>) \/ Contains(Lower(t), <<"u", "n", "a", "v", "a", "i", "l", "a", "b", "l", "e">>))

\* the fixed overload delay: GEMINI_503_RETRY_DELAY, 5 s when unset
OverloadDelay == IF env503 = <<>> THEN Rat(5, 1) ELSE ToFloat(env503)

TotalCalls ==
    LET total[n \in 0..Len(catalog)] == IF n = 0 THEN 0 ELSE total[n - 1] + calls[n]
    IN  total[Len(catalog)]

\* C5: a unit caller invokes the transport at most max_retries times (5 and 3
\* under the orchestrators), never again after a response that parsed, and
\* exactly max_retries times when it ends in failure; a run of N units in
\* which every first response parsed has made exactly N invocations.
C5_RetryBound ==
    /\ run_pc # "none" => max_retries = (IF kind = "bias" THEN 5 ELSE 3)
    /\ \A u \in Units :
          /\ calls[u] <= max_retries
          /\ got[u].n - got[u].fails <= 1
          /\ got[u].n - got[u].fails = 1 => (pc[u] = "returned" /\ calls[u] = got[u].n)
          /\ pc[u] = "raised" => (calls[u] = max_retries /\ got[u].fails = max_retries)
    /\ (Finished /\ \A u \in Units : got[u].fails = 0) => TotalCalls = Len(catalog)

\* a run of the dimension orchestrator in which a unit failed after 5
\* invocations and another one succeeded at its third
C5_Witness ==
    /\ Finished
    /\ kind = "bias"
    /\ \E u, v \in Units :
          /\ pc[u] = "raised" /\ calls[u] = 5
          /\ pc[v] = "returned" /\ calls[v] = 3

C7_SecmOverloadDelay ==
    \A u \in Units :
        (kind = "secm" /\ pc[u] = "sleeping" /\ OverloadText(StrOf(last_error[u]))) =>
            delay[u] = OverloadDelay

\* C8: when all max_retries >= 1 attempts of a unit failed, its failure reason
\* is the error of the last attempt, a transport failure or a parse failure.
C8_LastErrorIsReason ==
    \A u \in Units :
        (pc[u] = "raised" /\ max_retries >= 1) =>
            /\ got[u].n = max_retries
            /\ outcome[u].tag = "error"
            /\ outcome[u].error = ErrorOf(kind, got[u].last)

\* a unit has failed at its last attempt, of several, on a text that did not parse
C8_Witness ==
    \E u \in Units :
        /\ pc[u] = "raised"
        /\ max_retries >= 2
        /\ got[u].last.ok
        /\ outcome[u].error.type = "ValueError"

\* C9: a response that does not parse is retried like a transport failure:
\* with attempts remaining the caller goes to its wait and from there to the
\* next attempt, and a unit that ends in success holds the parsed value of
\* the first response that parsed.
C9_ParseFailureRetried ==
    /\ [](\A u \in Units :
            pc[u] = "returned" =>
                /\ Parses(kind, got[u].last)
                /\ got[u].fails = got[u].n - 1
                /\ outcome[u] = Value(ValueOf(kind, got[u].last)))
    /\ [][\A u \in Units :
            /\ ( /\ pc[u] = "in_thread"
                 /\ got'[u].n = got[u].n + 1
                 /\ got'[u].last.ok
                 /\ ~Parses(kind, got'[u].last)
                 /\ attempt[u] + 1 < max_retries )
               => (pc'[u] = "sleeping" /\ last_error'[u] = ErrorOf(kind, got'[u].last))
            /\ (pc[u] = "sleeping" /\ pc'[u] # "sleeping")
               => ( /\ pc'[u] = "in_thread"
                    /\ attempt'[u] = attempt[u] + 1
                    /\ calls'[u] = calls[u] + 1 )]_vars

\* the attempt that follows a response that did not parse is under way
C9_Witness ==
    \E u \in Units :
        /\ pc[u] = "in_thread"
        /\ attempt[u] >= 1
        /\ got[u].last.ok
        /\ last_error[u].type = "ValueError"

\* all that belongs to the task of unit u
UnitState(u) == <<pc[u], attempt[u], last_error[u], outcome[u], delay[u], calls[u], got[u]>>

\* C10: the invocations made for a unit and its final outcome are those that
\* the unit's own responses determine, and a step of one unit's task changes
\* nothing of a sibling's task.
C10_UnitIndependence ==
    /\ [](\A u \in Units :
            TaskDone(u) =>
                /\ calls[u] = got[u].n
                /\ IF got[u].n = 0 THEN max_retries = 0 /\ pc[u] = "raised"
                   ELSE IF Parses(kind, got[u].last)
                   THEN /\ got[u].fails = got[u].n - 1
                        /\ outcome[u] = Value(ValueOf(kind, got[u].last))
                   ELSE /\ got[u].fails = got[u].n
                        /\ got[u].n = max_retries
                        /\ outcome[u] = Error(ErrorOf(kind, got[u].last)))
    /\ [][\A u \in Units :
            (run_pc = "running" /\ UnitState(u)' # UnitState(u)) =>
                \A v \in Units \ {u} : UnitState(v)' = UnitState(v)]_vars

\* two units of one run ended differently, each after retries of its own
C10_Witness ==
    /\ run_pc = "running"
    /\ \E u, v \in Units :
          /\ pc[u] = "raised"
          /\ pc[v] = "returned"
          /\ calls[v] >= 2
          /\ calls[u] # calls[v]

\* a continuous value lies in [1.0, 7.0]
InScoreRange(v) ==
    /\ DOMAIN v = {"num", "den"}
    /\ v.den > 0
    /\ v.den <= v.num
    /\ v.num <= 7 * v.den

\* a binary result is a pair of 0 or 1 and the reasoning text
IsBinaryResult(v) ==
    /\ DOMAIN v = {"binary_answer", "reasoning"}
    /\ v.binary_answer \in {0, 1}
    /\ DOMAIN v.reasoning = 1..Len(v.reasoning)

\* C11: every value of the map an orchestrator returns is the value its
\* unit's parser read from a response of that same unit, a number of
\* [1.0, 7.0] for a dimension and 0 or 1 (with its reasoning) for a SECM
\* variable; the map holds nothing for a unit whose caller failed.
C11_ValidatedSuccesses ==
    run_pc = "completed" =>
        \A nm \in DOMAIN scores :
            /\ \E u \in Units :
                  /\ catalog[u] = nm
                  /\ got[u].last.ok
                  /\ Parses(kind, got[u].last)
                  /\ scores[nm] = ValueOf(kind, got[u].last)
            /\ IF kind = "bias" THEN InScoreRange(scores[nm]) ELSE IsBinaryResult(scores[nm])

\* rate_bias_parallel has returned a score read from the response "9"
C11_Witness ==
    /\ run_pc = "completed"
    /\ kind = "bias"
    /\ \E u \in Units :
          /\ got[u].last = Returned(<<"9">>)
          /\ scores[catalog[u]] = Rat(7, 1)

\* the steps of the state machine of a run
RunStep ==
    \/ run_pc = "pending" /\ run_pc' = "running"
    \/ run_pc = "running" /\ run_pc' \in {"completed", "all_failed"}
    \/ run_pc' = run_pc

\* C12: a run goes from pending to running and from running to exactly one of
\* completed (a result, nothing raised) and all_failed (the terminal error, no
\* result), and once every call of the transport returns or fails it reaches
\* one of them and stays there; the orchestrator creates the task of each unit
\* once, at the start of the run, and a task that has its outcome never runs
\* again.
C12_RunStateMachine ==
    /\ [][RunStep]_vars
    /\ [](run_pc = "completed" => (raised = None /\ DOMAIN scores # {}))
    /\ [](run_pc = "all_failed" => (raised # None /\ scores = <<>>))
    /\ [][Finished => UNCHANGED vars]_vars
    /\ (run_pc = "pending") ~> Finished
    /\ [][\A u \in Units :
            /\ pc'[u] = "scheduled" /\ pc[u] # "scheduled"
               => (pc[u] = "not_created" /\ run_pc = "pending" /\ run_pc' = "running")
            /\ pc'[u] # "not_created" \/ pc[u] = "not_created"
            /\ TaskDone(u) => UnitState(u)' = UnitState(u)]_vars

\* a run has ended after a task of it retried
C12_Witness ==
    /\ Finished
    /\ Len(catalog) = 2
    /\ \E u \in Units : calls[u] >= 2

\* the result of the direct call of a parser, once it is made
ParsedBy(parser) == parsed # None /\ parsed.by = parser

\* the text is a run of digits
IsDigits(t) == t # <<>> /\ \A i \in 1..Len(t) : IsDigit(t[i])

\* the text is a number: digits, or digits "." digits, with or without a sign
IsUnsignedNumber(t) ==
    \/ IsDigits(t)
    \/ \E d \in 2..(Len(t) - 1) :
          /\ t[d] = "."
          /\ IsDigits(SubSeq(t, 1, d - 1))
          /\ IsDigits(SubSeq(t, d + 1, Len(t)))
IsNumber(t) ==
    \/ IsUnsignedNumber(t)
    \/ t # <<>> /\ t[1] = "-" /\ IsUnsignedNumber(Tail(t))

\* the number a text is
NumberOf(t) ==
    IF t[1] = "-"
    THEN LET n == ToFloat(Tail(t)) IN Rat(0 - n.num, n.den)
    ELSE ToFloat(t)

\* clamp(n, 1, 7)
ClampOf(n) ==
    IF n.num > 7 * n.den THEN Rat(7, 1)
    ELSE IF n.num < n.den THEN Rat(1, 1)
    ELSE n

\* C13 as claimed: on every text that is a number n, negative ones and
\* decimals included, parse_llm_score returns clamp(n, 1, 7) and does not raise.
C13_ClampOfNumber ==
    (ParsedBy("parse_llm_score") /\ IsNumber(arg_response_text)) =>
        parsed.result = Returned(ClampOf(NumberOf(arg_response_text)))

\* a numeric pattern matches: a run of digits with no word character before
\* or after it (the integer part of a decimal is such a run)
HasNumber(t) ==
    \E i \in 1..Len(t) : \E j \in i..Len(t) :
        /\ \A n \in i..j : IsDigit(t[n])
        /\ ~WordAt(t, i - 1)
        /\ ~WordAt(t, j + 1)

\* one of the words one..seven is matched, in any case
HasNumberWord(t) ==
    \E w \in {WOne, WTwo, WThree, WFour, WFive, WSix, WSeven} :
        \E i \in 1..Len(t) :
            i + Len(w) - 1 <= Len(t) /\ Lower(SubSeq(t, i, i + Len(w) - 1)) = w

\* the text is empty or white space only
IsBlank(t) == \A i \in 1..Len(t) : IsSpace(t[i])

\* C14: parse_llm_score raises a ValueError, and returns no score, on the
\* empty text, on a text of white space only, and on every text in which
\* neither a numeric pattern nor one of the words one..seven is matched.
C14_NoDefaultScore ==
    ( /\ ParsedBy("parse_llm_score")
      /\ (IsBlank(arg_response_text) \/ (~HasNumber(arg_response_text) /\ ~HasNumberWord(arg_response_text))) )
    => /\ ~parsed.result.ok
       /\ parsed.result.error.type = "ValueError"
       /\ IsBlank(arg_response_text) => parsed.result.error.msg = MsgEmptyLLM

\* parse_llm_score has raised on a text of letters and signs
C14_Witness ==
    /\ ParsedBy("parse_llm_score")
    /\ arg_response_text = <<"N", "/", "A", " ", "u", "n", "k", "n", "o", "w", "n">>
    /\ ~parsed.result.ok

\* the tag stands at position i of the text, in any case
TagAt(t, i, tag) ==
    /\ i >= 1
    /\ i + Len(tag) - 1 <= Len(t)
    /\ \A n \in 1..Len(tag) : LowerChar(t[i + n - 1]) = tag[n]

\* a closing tag stands at j, after the opening tag that stands at i
ClosedAt(t, i, j, open, close) ==
    TagAt(t, i, open) /\ j >= i + Len(open) /\ TagAt(t, j, close)

\* the text has a block: an opening tag and a closing tag after it
HasBlock(t, open, close) ==
    \E i \in 1..Len(t) : \E j \in i..Len(t) : ClosedAt(t, i, j, open, close)

\* the inner text of the block of a text: from the first opening tag that
\* has a closing tag after it to the first such closing tag
InnerText(t, open, close) ==
    LET i == CHOOSE i \in 1..Len(t) :
                 /\ \E j \in i..Len(t) : ClosedAt(t, i, j, open, close)
                 /\ \A h \in 1..(i - 1) : \A j \in h..Len(t) : ~ClosedAt(t, h, j, open, close)
        j == CHOOSE j \in i..Len(t) :
                 /\ ClosedAt(t, i, j, open, close)
                 /\ \A h \in i..(j - 1) : ~ClosedAt(t, i, h, open, close)
    IN  SubSeq(t, i + Len(open), j - 1)

\* the reasoning parse_secm_response is to return for a text
ReasoningOf(t) ==
    IF HasBlock(t, TagReasoningOpen, TagReasoningClose)
    THEN Strip(InnerText(t, TagReasoningOpen, TagReasoningClose))
    ELSE <<>>

\* C15: on a text whose <answer> block has the inner text "1" (resp. "0"),
\* white space aside, parse_secm_response returns the value 1 (resp. 0) with
\* the trimmed inner text of the <reasoning> block, found in any case and
\* across lines, and with the empty string when there is no such block.
C15_TaggedAnswer ==
    ( /\ ParsedBy("parse_secm_response")
      /\ HasBlock(arg_response_text, TagAnswerOpen, TagAnswerClose)
      /\ Strip(InnerText(arg_response_text, TagAnswerOpen, TagAnswerClose)) \in {<<"1">>, <<"0">>} )
    => parsed.result =
          Returned(Answer(IF Strip(InnerText(arg_response_text, TagAnswerOpen, TagAnswerClose)) = <<"1">>
                          THEN 1 ELSE 0,
                          ReasoningOf(arg_response_text)))

\* parse_secm_response has read 0 and a reasoning of two lines from blocks
\* whose tags are not in lower case
C15_Witness ==
    /\ ParsedBy("parse_secm_response")
    /\ HasBlock(arg_response_text, TagAnswerOpen, TagAnswerClose)
    /\ ~Contains(arg_response_text, TagAnswerOpen)
    /\ parsed.result = Returned(Answer(0, <<"a", "\n", "b">>))

\* the text holds the word, in any case
HoldsWord(t, w) == \E i \in 1..Len(t) : TagAt(t, i, w)

\* the inner text of the <answer> block names neither value
AnswerUnreadable(t) ==
    /\ HasBlock(t, TagAnswerOpen, TagAnswerClose)
    /\ LET inner == InnerText(t, TagAnswerOpen, TagAnswerClose)
       IN  \A w \in {<<"1">>, WOne, <<"0">>, WZero, WAbsent} : ~HoldsWord(inner, w)

\* C16: when the text has an <answer> block whose inner text contains none of
\* "1", "one", "0", "zero", "absent", parse_secm_response raises the ValueError
\* of the answer tag, whatever the text outside the block holds: it does not
\* scan the rest of the text.
C16_NoFallbackFromTag ==
    (ParsedBy("parse_secm_response") /\ AnswerUnreadable(arg_response_text)) =>
        parsed.result =
            Raised(ValueError(MsgAnswerTag
                                  \o Strip(InnerText(arg_response_text, TagAnswerOpen, TagAnswerClose))))

\* parse_secm_response has raised on an unreadable <answer> block of a text
\* that holds "yes" before the block and "present" after it
C16_Witness ==
    /\ ParsedBy("parse_secm_response")
    /\ AnswerUnreadable(arg_response_text)
    /\ HoldsWord(arg_response_text, WYes)
    /\ HoldsWord(arg_response_text, WPresent)
    /\ ~parsed.result.ok

\* the text holds the word as a word: no word character before or after it
HoldsWholeWord(t, w) ==
    \E i \in 1..Len(t) :
        TagAt(t, i, w) /\ ~WordAt(t, i - 1) /\ ~WordAt(t, i + Len(w))

\* the signs of the value 1 and of the value 0 in a text without <answer> block
SignsOfOne(t) ==
    HoldsWholeWord(t, <<"1">>) \/ HoldsWholeWord(t, WPresent) \/ HoldsWholeWord(t, WYes)
SignsOfZero(t) ==
    HoldsWholeWord(t, <<"0">>) \/ HoldsWholeWord(t, WAbsent) \/ HoldsWholeWord(t, WNo)

\* C17 as claimed: on a text without <answer> block parse_secm_response
\* returns 1 when the text holds a standalone "1" or the word "present" or
\* "yes", else 0 when it holds a standalone "0" or the word "absent" or "no",
\* and raises in every other case.
C17_FallbackRule ==
    (ParsedBy("parse_secm_response") /\ ~HasBlock(arg_response_text, TagAnswerOpen, TagAnswerClose)) =>
        IF SignsOfOne(arg_response_text)
        THEN parsed.result.ok /\ parsed.result.value.binary_answer = 1
        ELSE IF SignsOfZero(arg_response_text)
        THEN parsed.result.ok /\ parsed.result.value.binary_answer = 0
        ELSE ~parsed.result.ok

RECURSIVE SumOfMarkers(_, _)
\* the sum of the values a map gives to the names of S, a name missing from
\* the map counting 0
SumOfMarkers(values, S) ==
    IF S \cap DOMAIN values = {} THEN 0
    ELSE LET v == CHOOSE v \in S \cap DOMAIN values : TRUE
         IN  values[v] + SumOfMarkers(values, S \ {v})

\* (a - b) / (a + b + K) as the float arithmetic of Python computes it: the
\* sum rounded, then the quotient rounded
Damped(a, b, K) ==
    LET sum == Round(Rat((a + b) * K.den + K.num, K.den))
    IN  Round(Rat((a - b) * sum.den, sum.num))

\* C18: score_secm returns ideological = (R - L) / (R + L + K) and epistemic
\* = (H - E) / (H + E + K) with L, R, H, E the sums of the map over the fixed
\* 6 left, 6 right, 5 high-integrity and 5 low-integrity names, a name missing
\* from the map counting 0; the empty map gives 0 and 0, and one right marker
\* with K = 4 gives the float 1/5 and 0.
C18_ScoreFormula ==
    /\ Cardinality(Range(left_vars)) = 6
    /\ Cardinality(Range(right_vars)) = 6
    /\ Cardinality(Range(high_vars)) = 5
    /\ Cardinality(Range(low_vars)) = 5
    /\ Cardinality(AllMarkers) = 22
    /\ final_scores # None =>
          LET L == SumOfMarkers(arg_variable_values, Range(left_vars))
              R == SumOfMarkers(arg_variable_values, Range(right_vars))
              H == SumOfMarkers(arg_variable_values, Range(high_vars))
              E == SumOfMarkers(arg_variable_values, Range(low_vars))
          IN  /\ DOMAIN final_scores = {"ideological_score", "epistemic_score"}
              /\ final_scores.ideological_score = Damped(R, L, secm_k)
              /\ final_scores.epistemic_score = Damped(H, E, secm_k)
              /\ arg_variable_values = <<>> =>
                    /\ final_scores.ideological_score = Rat(0, 1)
                    /\ final_scores.epistemic_score = Rat(0, 1)
              /\ (R = 1 /\ L = 0 /\ H = E /\ secm_k = Rat(4, 1)) =>
                    /\ final_scores.ideological_score = Round(Rat(1, 5))
                    /\ final_scores.epistemic_score = Rat(0, 1)

\* score_secm has scored a map that holds one right marker and nothing else,
\* with K = 4
C18_Witness ==
    /\ final_scores # None
    /\ secm_k = Rat(4, 1)
    /\ DOMAIN arg_variable_values = {right_vars[3]}
    /\ arg_variable_values[right_vars[3]] = 1
    /\ final_scores.ideological_score = Round(Rat(1, 5))
    /\ final_scores.epistemic_score = Rat(0, 1)

\* every value of the map is 0 or 1
IsBinaryMap(values) == \A v \in DOMAIN values : values[v] \in {0, 1}

\* -1 < x < 1
StrictlyInside(x) == RatLess(Rat(-1, 1), x) /\ RatLess(x, Rat(1, 1))

\* C19 as claimed: for every map of binary values, complete or partial, and
\* every K > 0, both scores of score_secm lie strictly between -1 and 1.
C19_StrictlyBounded ==
    (final_scores # None /\ IsBinaryMap(arg_variable_values) /\ RatLess(Rat(0, 1), secm_k)) =>
        /\ StrictlyInside(final_scores.ideological_score)
        /\ StrictlyInside(final_scores.epistemic_score)

\* the map with one more marker set
WithMarker(values, name) ==
    [v \in DOMAIN values \cup {name} |-> IF v = name THEN 1 ELSE values[v]]

\* C20 as claimed: with every left marker 0 and a fixed K > 0, the
\* ideological score of score_secm is below 1 and setting one more right
\* marker gives a strictly greater one, for R = 0, 1, ..., 6.
C20_DampingMonotone ==
    ( /\ final_scores # None
      /\ IsBinaryMap(arg_variable_values)
      /\ RatLess(Rat(0, 1), secm_k)
      /\ SumOfMarkers(arg_variable_values, Range(left_vars)) = 0 )
    => /\ RatLess(final_scores.ideological_score, Rat(1, 1))
       /\ \A name \in Range(right_vars) :
             Get(arg_variable_values, name) = 0 =>
                 RatLess(final_scores.ideological_score,
                         score_secm(WithMarker(arg_variable_values, name), secm_k).ideological_score)

\* t is how s begins
IsPrefix(t, s) == Len(t) <= Len(s) /\ SubSeq(s, 1, Len(t)) = t

\* the entries of the failure list that record the unit u
FailureEntries(u) ==
    {i \in 1..Len(errors) :
        IsPrefix((IF kind = "bias" THEN MsgDimension ELSE MsgVariable)
                     \o catalog[u] \o MsgQuoteColon, errors[i])}

\* the success map the orchestrator built: the one it returns, empty when it raises
SuccessKeys == DOMAIN scores

\* C23: after all tasks of a catalog of unique names finish, every unit is
\* recorded exactly once, as a key of the success map or as one entry of the
\* failure list, never both and never neither; the number of successes plus
\* the number of failure reasons is the size of the catalog.
C23_OutcomePartition ==
    Finished =>
        /\ \A u \in Units :
              \/ catalog[u] \in SuccessKeys /\ FailureEntries(u) = {}
              \/ catalog[u] \notin SuccessKeys /\ Cardinality(FailureEntries(u)) = 1
        /\ Cardinality(SuccessKeys) + Len(errors) = Len(catalog)

\* a run has ended with one unit in the success map and every other unit in
\* the failure list
C23_Witness ==
    /\ Finished
    /\ Len(catalog) >= 2
    /\ Cardinality(SuccessKeys) = 1
    /\ Len(errors) = Len(catalog) - 1

\* the transport invocations of unit u that have not returned or failed yet
InFlight(u) == calls[u] - got[u].n

\* C24: the attempts of one unit are strictly sequential: at no point are two
\* transport invocations of the same unit in flight, and attempt k+1 of a unit
\* starts only after attempt k has failed and its backoff wait has elapsed.
C24_SequentialAttempts ==
    /\ [](\A u \in Units :
            /\ InFlight(u) \in {0, 1}
            /\ InFlight(u) = 1 <=> pc[u] = "in_thread")
    /\ [][\A u \in Units :
            calls'[u] # calls[u] =>
                /\ calls'[u] = calls[u] + 1
                /\ InFlight(u) = 0
                /\ \/ calls[u] = 0 /\ pc[u] = "scheduled"
                   \/ /\ calls[u] > 0
                      /\ pc[u] = "sleeping"
                      /\ got[u].fails = calls[u]]_vars

\* the third attempt of a unit is in flight while the two before it have failed
C24_Witness ==
    \E u \in Units :
        /\ calls[u] = 3
        /\ pc[u] = "in_thread"
        /\ got[u].fails = 2

\* the failed units, in the order of the catalog
FailedInOrder ==
    [n \in 1..Cardinality(Failed) |->
        CHOOSE u \in Failed : Cardinality({v \in Failed : v < u}) = n - 1]

\* the failure reasons of the failed units, in the order of the catalog
ReasonsInOrder ==
    [n \in 1..Cardinality(Failed) |->
        (IF kind = "bias" THEN MsgDimension ELSE MsgVariable)
            \o catalog[FailedInOrder[n]] \o MsgQuoteColon
            \o StrOf(outcome[FailedInOrder[n]].error)]

\* C26: whatever the interleaving and the order in which the unit tasks
\* complete, the failure list lists the failed units in the order of the
\* catalog, and the joined message of the terminal error is that list joined:
\* a function of the outcomes of the units alone.
C26_FailuresInCatalogOrder ==
    Finished =>
        /\ errors = ReasonsInOrder
        /\ run_pc = "all_failed" =>
              raised.detail = (IF kind = "bias" THEN MsgBiasFailed ELSE MsgSecmFailed)
                                  \o JoinWith(ReasonsInOrder, MsgJoin)

\* a run has ended with two failed units whose reasons differ
C26_Witness ==
    /\ run_pc = "all_failed"
    /\ Cardinality(Failed) >= 2
    /\ errors[1] # errors[2]
    /\ StrOf(outcome[1].error) # StrOf(outcome[2].error)

\* C27: rate_bias_parallel and rate_secm_parallel called with a catalog of no
\* units invoke the transport never and raise the HTTPException 502 with an
\* empty list of failure reasons; they do not return an empty result.
C27_EmptyCatalog ==
    catalog = <<>> =>
        /\ TotalCalls = 0
        /\ Finished =>
              /\ run_pc = "all_failed"
              /\ raised = HTTPException(502, IF kind = "bias" THEN MsgBiasFailed ELSE MsgSecmFailed)
              /\ errors = <<>>
              /\ warning = <<>>

\* an orchestrator has ended on a catalog of no units
C27_Witness ==
    /\ catalog = <<>>
    /\ Finished
    /\ raised # None

\* the digits of t from i to j, i <= j
DigitsFrom(t, i, j) == \A n \in i..j : IsDigit(t[n])

\* t[i..j] is a decimal: digits, a point, digits, and no digit before or after
DecimalAt(t, i, j) ==
    /\ 1 <= i /\ j <= Len(t)
    /\ \E d \in (i + 1)..(j - 1) :
          t[d] = "." /\ DigitsFrom(t, i, d - 1) /\ DigitsFrom(t, d + 1, j)
    /\ ~(i > 1 /\ IsDigit(t[i - 1]))
    /\ ~(j < Len(t) /\ IsDigit(t[j + 1]))

\* t[i..j] is an integer: digits, and no digit before or after
IntegerAt(t, i, j) ==
    /\ 1 <= i /\ i <= j /\ j <= Len(t)
    /\ DigitsFrom(t, i, j)
    /\ ~(i > 1 /\ IsDigit(t[i - 1]))
    /\ ~(j < Len(t) /\ IsDigit(t[j + 1]))

\* t[i..j] stands alone: no word character right before or right after it
Delimited(t, i, j) == ~WordAt(t, i - 1) /\ ~WordAt(t, j + 1)

\* the spans of t that begin and end with a digit
Spans(t) ==
    LET digits == {n \in 1..Len(t) : IsDigit(t[n])}
    IN  {<<i, j>> : i \in digits, j \in digits}

\* the decimals of t, anywhere, and those that stand alone
DecimalsAnywhere(t) == {s \in Spans(t) : DecimalAt(t, s[1], s[2])}
DecimalsDelimited(t) == {s \in DecimalsAnywhere(t) : Delimited(t, s[1], s[2])}
IntegersDelimited(t) ==
    {s \in Spans(t) : IntegerAt(t, s[1], s[2]) /\ Delimited(t, s[1], s[2])}

\* the text of the first span of a set of spans of t
FirstOf(t, S) ==
    LET s == CHOOSE x \in S : \A y \in S : x[1] <= y[1]
    IN  SubSeq(t, s[1], s[2])

\* C25 as claimed: when the text holds digits, a point, digits anywhere,
\* parse_llm_score returns the clamp of the first such decimal.
C25_DecimalAnywhere ==
    (ParsedBy("parse_llm_score") /\ DecimalsAnywhere(arg_response_text) # {}) =>
        parsed.result =
            Returned(ClampOf(ToFloat(FirstOf(arg_response_text, DecimalsAnywhere(arg_response_text)))))

\* C25 as amended: when the text holds a decimal (digits, a point, digits)
\* with no word character right before or right after it, parse_llm_score
\* returns the clamp of the first such decimal, even when an integer stands
\* earlier in the text; else, when it holds an integer with no word character
\* right before or right after it, the clamp of the first such integer; a
\* number word decides the result only when neither is there.
C25_PatternPriority ==
    ParsedBy("parse_llm_score") =>
        LET t == arg_response_text
        IN  IF DecimalsDelimited(t) # {}
            THEN parsed.result = Returned(ClampOf(ToFloat(FirstOf(t, DecimalsDelimited(t)))))
            ELSE IF IntegersDelimited(t) # {}
            THEN parsed.result = Returned(ClampOf(ToFloat(FirstOf(t, IntegersDelimited(t)))))
            ELSE parsed.result.ok =>
                    /\ HasNumberWord(t)
                    /\ parsed.result.value \in {Rat(n, 1) : n \in 1..7}

\* parse_llm_score has returned the decimal of a text that begins with an integer
C25_Witness ==
    /\ ParsedBy("parse_llm_score")
    /\ arg_response_text = <<"8", " ", "5", ".", "8">>
    /\ parsed.result = Returned(Rat(29, 5))

\* the value of each of the words one..seven
NumberWords ==
    { <<WOne, 1>>, <<WTwo, 2>>, <<WThree, 3>>, <<WFour, 4>>,
      <<WFive, 5>>, <<WSix, 6>>, <<WSeven, 7>> }

\* the values of the number words the text holds as substrings, in any case
WordValues(t) ==
    LET lowered == Lower(t)
    IN  {w[2] : w \in {x \in NumberWords :
                          \E i \in 1..(Len(t) - Len(x[1]) + 1) :
                              SubSeq(lowered, i, i + Len(x[1]) - 1) = x[1]}}

\* C28: when no numeric pattern matches, parse_llm_score returns the value of
\* the lowest-valued word among one..seven that the lower-cased text holds as
\* a substring, wherever the words stand and whatever stands around them, and
\* it fails only when the text holds none of the seven words.
C28_LowestNumberWord ==
    ( /\ ParsedBy("parse_llm_score")
      /\ ~IsBlank(arg_response_text)
      /\ DecimalsDelimited(arg_response_text) = {}
      /\ IntegersDelimited(arg_response_text) = {} )
    => LET held == WordValues(arg_response_text)
       IN  IF held # {}
           THEN parsed.result = Returned(Rat(CHOOSE n \in held : \A m \in held : n <= m, 1))
           ELSE /\ ~parsed.result.ok
                /\ parsed.result.error.type = "ValueError"

\* parse_llm_score has returned 1.0 on a text that holds seven before one, and
\* on the word none
C28_Witness ==
    /\ ParsedBy("parse_llm_score")
    /\ arg_response_text \in { <<"S", "E", "V", "E", "N", " ", "o", "n", "e">>,
                               <<"n", "o", "n", "e">> }
    /\ parsed.result = Returned(Rat(1, 1))

\* the text parse_secm_response examines has an indicator of 1: inside the
\* <answer> block the character 1 or "one"; without a block, in the whole
\* text, a standalone 1 or "present" or "yes"
IndicatesOne(t) ==
    IF HasBlock(t, TagAnswerOpen, TagAnswerClose)
    THEN LET inner == InnerText(t, TagAnswerOpen, TagAnswerClose)
         IN  HoldsWord(inner, <<"1">>) \/ HoldsWord(inner, WOne)
    ELSE HoldsWholeWord(t, <<"1">>) \/ HoldsWord(t, WPresent) \/ HoldsWord(t, WYes)

\* the examined text has an indicator of 0: inside the block the character 0
\* or "zero" or "absent"; without a block a standalone 0 or "absent" or "no"
IndicatesZero(t) ==
    IF HasBlock(t, TagAnswerOpen, TagAnswerClose)
    THEN LET inner == InnerText(t, TagAnswerOpen, TagAnswerClose)
         IN  HoldsWord(inner, <<"0">>) \/ HoldsWord(inner, WZero) \/ HoldsWord(inner, WAbsent)
    ELSE HoldsWholeWord(t, <<"0">>) \/ HoldsWord(t, WAbsent) \/ HoldsWord(t, WNo)

\* C29: whenever the text parse_secm_response examines (the inner text of the
\* <answer> block, or the whole text when there is no block) holds both an
\* indicator of 1 and an indicator of 0, the value returned is 1; the value 0
\* is returned only when no indicator of 1 is there.
C29_OneBeforeZero ==
    ParsedBy("parse_secm_response") =>
        LET one == IndicatesOne(arg_response_text)
            zero == IndicatesZero(arg_response_text)
        IN  /\ (one /\ zero) => (parsed.result.ok /\ parsed.result.value.binary_answer = 1)
            /\ (parsed.result.ok /\ parsed.result.value.binary_answer = 0) => (zero /\ ~one)

\* parse_secm_response has returned 1 on an <answer> block that holds both
\* the characters 1 and 0
C29_Witness ==
    /\ ParsedBy("parse_secm_response")
    /\ HasBlock(arg_response_text, TagAnswerOpen, TagAnswerClose)
    /\ IndicatesOne(arg_response_text)
    /\ IndicatesZero(arg_response_text)
    /\ parsed.result.ok
    /\ parsed.result.value.binary_answer = 1


(* ---------------------------------------------------------------- C21 *)

RECURSIVE ExactSum(_)
\* the sum of a sequence of fractions, without rounding
ExactSum(values) ==
    IF values = <<>> THEN Rat(0, 1)
    ELSE LET x == values[1]
             y == ExactSum(Tail(values))
         IN  Rat(x.num * y.den + y.num * x.den, x.den * y.den)

\* (mean of values - 1) / 6 * 2 - 1, without rounding
ExactOverall(values) ==
    LET s == ExactSum(values)
        n == Len(values)
    IN  Rat(s.num - 4 * n * s.den, 3 * n * s.den)

\* |x - y| <= 2^-(Precision - 4): the few roundings of a sum of at most four
\* values of 1..7, a division and a normalization, each half a unit of the
\* last of Precision places
Near(x, y) ==
    LET diff == x.num * y.den - y.num * x.den
        size == IF diff < 0 THEN 0 - diff ELSE diff
    IN  size * Pow2(Precision - 4) <= x.den * y.den

\* the dimensions of a dict that all hold the value v
AllAre(d, v) == DOMAIN d # {} /\ \A name \in DOMAIN d : d[name] = v

AlwaysFive ==
    /\ \A u \in DOMAIN llm.bias : llm.bias[u] = ApiResult(TextFive, <<>>)
    /\ \A u \in DOMAIN llm.secm : llm.secm[u] = ApiResult(TextFive, <<>>)

\* request r was for an article with text and no rating, with the key
\* configured, and its handler has ended
AnalyzedAfresh(r) ==
    /\ requests[r].pc = "done"
    /\ article = "ok"
    /\ api_key
    /\ requests[r].existing_rating = None

\* the row stored under the rating_id of a response, if any
StoredUnder(resp) == {i \in 1..Len(bias_ratings) : bias_ratings[i].rating_id = resp.rating_id}

\* C22: when every transport call returns "5", a request for an article with
\* text and no existing rating ends with status 200, a stored rating whose
\* four dimension scores are 5.0 and whose overall score is 1/3 (as a float),
\* and exactly 4 invocations of the transport
C22_AllFiveSucceeds ==
    \A r \in Requests :
        (AlwaysFive /\ AnalyzedAfresh(r)) =>
            /\ requests[r].response.status_code = 200
            /\ requests[r].transport_calls = 4
            /\ \E i \in StoredUnder(requests[r].response) :
                  /\ \A name \in Range(DimensionNames) : bias_ratings[i][name] = Rat(5, 1)
                  /\ Near(bias_ratings[i].bias_score, Rat(1, 3))


(* ---------------------------------------------------------------- C30 *)

\* the rows of the table for the article of the requests
RowsOfArticle == {i \in 1..Len(bias_ratings) : bias_ratings[i].article_id = 1}

\* C30: whatever the interleaving of the requests for one article, the table
\* holds at most one BiasRating row for it, and a request that found the
\* rating answers with that rating and never invokes the transport
C30_OneRatingPerArticle ==
    /\ Cardinality(RowsOfArticle) <= 1
    /\ \A r \in Requests :
          (requests[r].pc = "done" /\ requests[r].existing_rating # None) =>
              /\ requests[r].transport_calls = 0
              /\ requests[r].response.status_code = 200 =>
                    requests[r].response.rating_id = requests[r].existing_rating.rating_id

====
